---- MODULE Spec2Model ----
(***************************************************************************)
(* State-machine model of the YTDL download orchestration engine           *)
(* (src/v2/youtube_downloader.py) as driven by the Flask front end         *)
(* (src/web_app.py): one process-wide WebDownloader instance shared by all *)
(* download worker threads, the active/completed job maps, the quality     *)
(* ladder loop, the yt-dlp call helper with its SSL / file-lock retries    *)
(* and the dual-stream ("ultra") pipeline.                                 *)
(***************************************************************************)
EXTENDS Integers, Sequences, FiniteSets, TLC

None == "None"

\* ---- bounds of the model ------------------------------------------------
NumJobs == 2            \* download requests submitted to the web layer
MaxEvents == 1          \* progress events the backend emits during one call
MaxFaults == 1          \* backend failures injected while jobs run concurrently
MaxSoloFaults == 3      \* backend failures injected into the job of a single client
MaxCancels == 1         \* jobs the clients send cancel requests for

Jobs == 1..NumJobs
SoloJobs == {1}
Roles == {"main", "video", "audio"}
Threads == Jobs \X Roles
M(j) == <<j, "main">>

\* ---- strings: lower-casing and substring tests ---------------------------
\* str.lower() on the mixed-case chunks the sample inputs use
Lower(s) ==
  CASE s = "YouTube.com" -> "youtube.com"
    [] s = "Video" -> "video"
    [] s = "720P" -> "720p"
    [] s = "VK.COM" -> "vk.com"
    [] s = "Rutube.RU" -> "rutube.ru"
    [] s = "HTTPS://" -> "https://"
    [] s = "/Watch?V=X" -> "/watch?v=x"
    [] OTHER -> s

\* A URL or a file name is a sequence of chunks; `needle in text.lower()`
InLower(needle, text) == \E i \in DOMAIN text : Lower(text[i]) = needle
\* `needle in text`
In(needle, text) == \E i \in DOMAIN text : text[i] = needle
\* text.endswith(suffix)
EndsWith(text, suffix) == Len(text) > 0 /\ text[Len(text)] = suffix

UrlYoutube == <<"https://", "www.", "YouTube.com", "/watch?v=x">>
UrlDzen == <<"https://", "dzen.ru", "/video/x">>
UrlTwitch == <<"https://", "www.", "twitch.tv", "/videos/1">>
UrlOther == <<"https://", "example.org", "/v/1">>

\* no lower(): the domains are looked for in the URL as it was given
detect_platform_case_sensitive(url) ==
  IF \E d \in {"youtube.com", "youtu.be", "youtube-nocookie.com"} : In(d, url) THEN "youtube"
  ELSE IF \E d \in {"vk.com", "vkontakte.ru"} : In(d, url) THEN "vk"
  ELSE IF \E d \in {"dzen.ru", "zen.yandex"} : In(d, url) THEN "dzen"
  ELSE IF In("rutube.ru", url) THEN "rutube"
  ELSE IF In("instagram.com", url) THEN "instagram"
  ELSE IF In("tiktok.com", url) THEN "tiktok"
  ELSE IF In("twitch.tv", url) THEN "twitch"
  ELSE IF \E d \in {"vimeo.com", "player.vimeo.com"} : In(d, url) THEN "vimeo"
  ELSE "unknown"

detect_platform(url) ==
  IF \E d \in {"youtube.com", "youtu.be", "youtube-nocookie.com"} : InLower(d, url) THEN "youtube"
  ELSE IF \E d \in {"vk.com", "vkontakte.ru"} : InLower(d, url) THEN "vk"
  ELSE IF \E d \in {"dzen.ru", "zen.yandex"} : InLower(d, url) THEN "dzen"
  ELSE IF InLower("rutube.ru", url) THEN "rutube"
  ELSE IF InLower("instagram.com", url) THEN "instagram"
  ELSE IF InLower("tiktok.com", url) THEN "tiktok"
  ELSE IF InLower("twitch.tv", url) THEN "twitch"
  ELSE IF \E d \in {"vimeo.com", "player.vimeo.com"} : InLower(d, url) THEN "vimeo"
  ELSE "unknown"

\* ---- failure messages ----------------------------------------------------
\* The messages yt-dlp raises, and for each the tested substrings it contains
\* (case-sensitive tests) and contains after lower() (case-insensitive tests).
Msg404 == "HTTP Error 404: Not Found"
Msg403 == "HTTP Error 403: Forbidden"
MsgSsl == "[SSL: CERTIFICATE_VERIFY_FAILED] certificate verify failed"
MsgLocked == "[WinError 5] Access is denied"
MsgFragment == "Initialization fragment not found"
MsgUnavailable == "Requested format is not available"
MsgTimeout == "Connection timed out"
MsgJson == "Failed to parse JSON"
MsgCancelled == "Download cancelled by user"
MsgDownloadFailed == "Download failed"

DownloadErrors == {Msg404, Msg403, MsgSsl, MsgLocked, MsgFragment, MsgUnavailable, MsgTimeout}
InfoErrors == {Msg404, MsgSsl, MsgJson, MsgTimeout}

Needles(msg) ==
  CASE msg = Msg404 -> {"404"}
    [] msg = Msg403 -> {"403", "Forbidden"}
    [] msg = MsgLocked -> {"WinError 5", "Access is denied"}
    [] msg = MsgFragment -> {"Initialization fragment"}
    [] msg = MsgJson -> {"JSON"}
    [] msg = MsgSsl -> {"CERTIFICATE_VERIFY_FAILED", "[SSL:"}
    [] OTHER -> {}

NeedlesLower(msg) ==
  CASE msg = MsgSsl -> {"certificate_verify_failed", "certificate verify failed", "[ssl:",
                        "ssl: certificate_verify_failed"}
    [] msg = MsgFragment -> {"fragment"}
    [] msg = MsgUnavailable -> {"not available", "requested format"}
    [] msg = MsgJson -> {"parse"}
    [] OTHER -> {}

Has(needle, msg) == needle \in Needles(msg)
HasLower(needle, msg) == needle \in NeedlesLower(msg)

is_ssl_error(error_str) ==
  \E indicator \in {"certificate_verify_failed", "certificate verify failed",
                    "certificateverifyerror", "[ssl:", "ssl: certificate_verify_failed"} :
     HasLower(indicator, error_str)

\* youtube_downloader.py:1702-1758
dzen_fallbacks ==
  ("best" :>
       <<"best[ext=mp4]",
         "bestvideo[ext=mp4]+bestaudio[ext=m4a]/best",
         "best[height<=1080]",
         "best[height<=720]",
         "best">>)
  @@ ("4k" :>
       <<"best[height<=2160][ext=mp4]",
         "best[height<=1440][ext=mp4]",
         "bestvideo[height<=2160][ext=mp4]+bestaudio[ext=m4a]/best[height<=2160]",
         "bestvideo[height<=1440][ext=mp4]+bestaudio[ext=m4a]/best[height<=1440]",
         "best[ext=mp4]",
         "best">>)
  @@ ("1440p" :>
       <<"best[height<=1440][ext=mp4]",
         "best[height<=1080][ext=mp4]",
         "bestvideo[height<=1440][ext=mp4]+bestaudio[ext=m4a]/best[height<=1440]",
         "bestvideo[height<=1080][ext=mp4]+bestaudio[ext=m4a]/best[height<=1080]",
         "best[ext=mp4]",
         "best">>)
  @@ ("1080p" :>
       <<"best[height<=1080][ext=mp4]",
         "best[height<=720][ext=mp4]",
         "bestvideo[height<=1080][ext=mp4]+bestaudio[ext=m4a]/best[height<=1080]",
         "bestvideo[height<=720][ext=mp4]+bestaudio[ext=m4a]/best[height<=720]",
         "best[ext=mp4]",
         "best">>)
  @@ ("720p" :>
       <<"best[height<=720][ext=mp4]",
         "best[height<=480][ext=mp4]",
         "bestvideo[height<=720][ext=mp4]+bestaudio[ext=m4a]/best[height<=720]",
         "bestvideo[height<=480][ext=mp4]+bestaudio[ext=m4a]/best[height<=480]",
         "best[ext=mp4]",
         "best">>)
  @@ ("480p" :>
       <<"best[height<=480][ext=mp4]",
         "best[height<=360][ext=mp4]",
         "bestvideo[height<=480][ext=mp4]+bestaudio[ext=m4a]/best[height<=480]",
         "bestvideo[height<=360][ext=mp4]+bestaudio[ext=m4a]/best[height<=360]",
         "best[ext=mp4]",
         "best">>)
  @@ ("360p" :>
       <<"best[height<=360][ext=mp4]",
         "best[height<=240][ext=mp4]",
         "bestvideo[height<=360][ext=mp4]+bestaudio[ext=m4a]/best[height<=360]",
         "bestvideo[height<=240][ext=mp4]+bestaudio[ext=m4a]/best[height<=240]",
         "best[ext=mp4]",
         "best">>)

\* youtube_downloader.py:1768-1841 (can_merge)
merge_fallbacks ==
  ("best" :>
       <<"bestvideo[height>=1080]+bestaudio/best[height>=1080]",
         "bestvideo[height>=720]+bestaudio/best[height>=720]",
         "bestvideo+bestaudio/best[height>=480]",
         "best[height>=1080]",
         "best[height>=720]",
         "best[height>=480]",
         "best[height<=2160]",
         "best[height<=1080]",
         "best[height<=720]",
         "bestvideo[ext=mp4]+bestaudio[ext=m4a]/best[ext=mp4]",
         "bestvideo+bestaudio/best",
         "best">>)
  @@ ("4k" :>
       <<"bestvideo[height>=2160]+bestaudio/best[height>=2160]",
         "bestvideo[height>=1440]+bestaudio/best[height>=1440]",
         "bestvideo[height>=1080]+bestaudio/best[height>=1080]",
         "best[height>=2160]",
         "best[height>=1440]",
         "best[height>=1080]",
         "best[height<=2160]",
         "best[height<=1440]",
         "best[height<=1080]",
         "bestvideo[height>=2160]+bestaudio/best[height<=2160]",
         "bestvideo+bestaudio/best",
         "best">>)
  @@ ("1440p" :>
       <<"bestvideo[height<=1440][height>=1080]+bestaudio/best[height<=1440][height>=1080]",
         "bestvideo[height<=1440]+bestaudio/best[height<=1440]",
         "best[height<=1440][height>=1080]",
         "best[height<=1440]",
         "best[height>=1080]",
         "bestvideo[height>=1080]+bestaudio/best[height>=1080]",
         "bestvideo+bestaudio/best",
         "best">>)
  @@ ("1080p" :>
       <<"bestvideo[height<=1080][height>=720]+bestaudio/best[height<=1080][height>=720]",
         "bestvideo[height<=1080]+bestaudio/best[height<=1080]",
         "best[height<=1080][height>=720]",
         "best[height<=1080]",
         "best[height>=720]",
         "bestvideo[height>=720]+bestaudio/best[height>=720]",
         "bestvideo+bestaudio/best",
         "best">>)
  @@ ("720p" :>
       <<"bestvideo[height<=720][height>=480]+bestaudio/best[height<=720][height>=480]",
         "bestvideo[height<=720]+bestaudio/best[height<=720]",
         "best[height<=720][height>=480]",
         "best[height<=720]",
         "best[height>=480]",
         "bestvideo[height>=480]+bestaudio/best[height>=480]",
         "bestvideo+bestaudio/best",
         "best">>)
  @@ ("480p" :>
       <<"bestvideo[height<=480][height>=360]+bestaudio/best[height<=480][height>=360]",
         "bestvideo[height<=480]+bestaudio/best[height<=480]",
         "best[height<=480][height>=360]",
         "best[height<=480]",
         "best[height>=360]",
         "bestvideo[height>=360]+bestaudio/best[height>=360]",
         "bestvideo+bestaudio/best",
         "best">>)
  @@ ("360p" :>
       <<"bestvideo[height<=360][height>=240]+bestaudio/best[height<=360][height>=240]",
         "bestvideo[height<=360]+bestaudio/best[height<=360]",
         "best[height<=360][height>=240]",
         "best[height<=360]",
         "best[height>=240]",
         "bestvideo[height>=240]+bestaudio/best[height>=240]",
         "bestvideo+bestaudio/best",
         "best">>)
  @@ ("240p" :>
       <<"bestvideo[height<=240][height>=144]+bestaudio/best[height<=240][height>=144]",
         "bestvideo[height<=240]+bestaudio/best[height<=240]",
         "best[height<=240][height>=144]",
         "best[height<=240]",
         "best[height>=144]",
         "bestvideo[height>=144]+bestaudio/best[height>=144]",
         "bestvideo+bestaudio/best",
         "best">>)
  @@ ("144p" :>
       <<"bestvideo[height<=144]+bestaudio/best[height<=144]",
         "best[height<=144]",
         "bestvideo[height>=144]+bestaudio/best[height>=144]",
         "bestvideo+bestaudio/best",
         "best">>)

\* youtube_downloader.py:1849-1916 (no merge capability)
muxed_fallbacks ==
  ("best" :>
       <<"best[vcodec!*=none][acodec!*=none]",
         "best[height>=1080][vcodec!*=none][acodec!*=none]",
         "best[height>=720][vcodec!*=none][acodec!*=none]",
         "best[height>=480][vcodec!*=none][acodec!*=none]",
         "best[ext=mp4]",
         "best">>)
  @@ ("4k" :>
       <<"best[height>=2160][vcodec!*=none][acodec!*=none]",
         "best[height>=1440][vcodec!*=none][acodec!*=none]",
         "best[height>=1080][vcodec!*=none][acodec!*=none]",
         "best[height>=720][vcodec!*=none][acodec!*=none]",
         "best[vcodec!*=none][acodec!*=none]",
         "best[ext=mp4]",
         "best">>)
  @@ ("1440p" :>
       <<"best[height>=1440][vcodec!*=none][acodec!*=none]",
         "best[height>=1080][vcodec!*=none][acodec!*=none]",
         "best[height>=720][vcodec!*=none][acodec!*=none]",
         "best[height>=480][vcodec!*=none][acodec!*=none]",
         "best[vcodec!*=none][acodec!*=none]",
         "best[ext=mp4]",
         "best">>)
  @@ ("1080p" :>
       <<"best[height>=1080][vcodec!*=none][acodec!*=none]",
         "best[height>=720][vcodec!*=none][acodec!*=none]",
         "best[height>=480][vcodec!*=none][acodec!*=none]",
         "best[height>=360][vcodec!*=none][acodec!*=none]",
         "best[vcodec!*=none][acodec!*=none]",
         "best[ext=mp4]",
         "best">>)
  @@ ("720p" :>
       <<"best[height>=720][vcodec!*=none][acodec!*=none]",
         "best[height>=480][vcodec!*=none][acodec!*=none]",
         "best[height>=360][vcodec!*=none][acodec!*=none]",
         "best[height>=240][vcodec!*=none][acodec!*=none]",
         "best[vcodec!*=none][acodec!*=none]",
         "best[ext=mp4]",
         "best">>)
  @@ ("480p" :>
       <<"best[height=480][vcodec!*=none][acodec!*=none]",
         "best[height>=480][height<720][vcodec!*=none][acodec!*=none]",
         "best[height<=480][height>=360][vcodec!*=none][acodec!*=none]",
         "best[height<=480][vcodec!*=none][acodec!*=none]",
         "best[ext=mp4]",
         "best">>)
  @@ ("360p" :>
       <<"best[height=360][vcodec!*=none][acodec!*=none]",
         "best[height>=360][height<480][vcodec!*=none][acodec!*=none]",
         "best[height<=360][height>=240][vcodec!*=none][acodec!*=none]",
         "best[height<=360][vcodec!*=none][acodec!*=none]",
         "best[ext=mp4]",
         "best">>)
  @@ ("240p" :>
       <<"best[height=240][vcodec!*=none][acodec!*=none]",
         "best[height>=240][height<360][vcodec!*=none][acodec!*=none]",
         "best[height<=240][height>=144][vcodec!*=none][acodec!*=none]",
         "best[height<=240][vcodec!*=none][acodec!*=none]",
         "best[ext=mp4]",
         "best",
         "worst[height=240][vcodec!*=none][acodec!*=none]",
         "worst[ext=mp4]",
         "worst">>)
  @@ ("144p" :>
       <<"best[height=144][vcodec!*=none][acodec!*=none]",
         "best[height>=144][height<240][vcodec!*=none][acodec!*=none]",
         "best[height<=144][vcodec!*=none][acodec!*=none]",
         "best[ext=mp4]",
         "best",
         "worst[height=144][vcodec!*=none][acodec!*=none]",
         "worst[ext=mp4]",
         "worst">>)

\* youtube_downloader.py:1918-1924, the default of fallbacks.get
default_fallbacks(can_merge) ==
  IF can_merge THEN <<"bestvideo[height>=720]+bestaudio/best[height>=720]", "bestvideo[height>=480]+bestaudio/best[height>=480]", "bestvideo[height>=360]+bestaudio/best[height>=360]", "bestvideo+bestaudio/best", "best">>
  ELSE <<"best[height>=720][vcodec!*=none][acodec!*=none]", "best[height>=480][vcodec!*=none][acodec!*=none]", "best[height>=360][vcodec!*=none][acodec!*=none]", "best[vcodec!*=none][acodec!*=none]", "best">>

\* The same with the last entry of every ladder left out
get_quality_fallbacks_without_tail(quality, is_dzen, can_merge) ==
  LET full == IF is_dzen
              THEN IF Lower(quality) \in DOMAIN dzen_fallbacks
                   THEN dzen_fallbacks[Lower(quality)] ELSE dzen_fallbacks["best"]
              ELSE IF can_merge
                   THEN IF Lower(quality) \in DOMAIN merge_fallbacks
                        THEN merge_fallbacks[Lower(quality)] ELSE default_fallbacks(TRUE)
                   ELSE IF Lower(quality) \in DOMAIN muxed_fallbacks
                        THEN muxed_fallbacks[Lower(quality)] ELSE default_fallbacks(FALSE)
  IN SubSeq(full, 1, Len(full) - 1)

get_quality_fallbacks(quality, is_dzen, can_merge) ==
  IF is_dzen
  THEN IF Lower(quality) \in DOMAIN dzen_fallbacks
       THEN dzen_fallbacks[Lower(quality)] ELSE dzen_fallbacks["best"]
  ELSE IF can_merge
       THEN IF Lower(quality) \in DOMAIN merge_fallbacks
            THEN merge_fallbacks[Lower(quality)] ELSE default_fallbacks(TRUE)
       ELSE IF Lower(quality) \in DOMAIN muxed_fallbacks
            THEN muxed_fallbacks[Lower(quality)] ELSE default_fallbacks(FALSE)


\* ---- sample inputs --------------------------------------------------------
Request(url, quality, audio_only, audio_language, insecure_ssl, trim) ==
  [url |-> url, quality |-> quality, audio_only |-> audio_only,
   audio_language |-> audio_language, insecure_ssl |-> insecure_ssl, trim |-> trim]

\* Requests a single client submits: the platform branches and every per-job flag
SoloRequests ==
  {Request(UrlYoutube, "720p", FALSE, None, FALSE, None),
   Request(UrlYoutube, "144p", FALSE, None, FALSE, None),
   Request(UrlDzen, "720P", FALSE, "en", TRUE, None),
   Request(UrlTwitch, "480p", FALSE, None, FALSE, "10-20"),
   Request(UrlOther, "best", TRUE, "en", FALSE, None)}

\* Requests of concurrent clients: they differ in every per-job flag
JobRequests ==
  {Request(UrlYoutube, "144p", FALSE, None, FALSE, None),
   Request(UrlOther, "best", TRUE, "en", TRUE, "10-20")}

\* File names the backend reports in 'finished' events
FilePlain == <<"downloads/", "clip", ".mp4">>
FileTitled == <<"downloads/", "Official ", "Video", ".mp4">>
FileFormat == <<"downloads/", "clip", ".f137", ".mp4">>
FileWebm == <<"downloads/", "clip", ".f251", ".webm">>
FileMp3 == <<"downloads/", "clip", ".mp3">>
FileTempVideo == <<"/", "tmp", "/", "tmp", "ab12/", "video", ".mp4">>
FileTempAudio == <<"/", "tmp", "/", "tmp", "ab12/", "audio", ".m4a">>
NoFile == <<>>

\* pathlib.Path(filename).name: what follows the last directory chunk
IsDirectory(chunk) == chunk \in {"/", "downloads/", "ab12/"}
PathName(f) ==
  LET dirs == {i \in DOMAIN f : IsDirectory(f[i])}
      last == IF dirs = {} THEN 0 ELSE CHOOSE i \in dirs : \A k \in dirs : k <= i
  IN SubSeq(f, last + 1, Len(f))

Event(status, filename, fragment) ==
  [status |-> status, filename |-> filename, fragment |-> fragment]

\* What a running backend call has emitted: the number of intermediate events and
\* whether the 'finished' event of the file was delivered
NoEvents == [count |-> 0, finished |-> FALSE]
\* the 'finished' event of the whole file (no fragment keys)
IsFinal(d) == d.status = "finished" /\ ~d.fragment

\* Progress events yt-dlp hands to the hooks while it fetches for a thread
EventsOf(role, audio_only) ==
  {Event("downloading", NoFile, FALSE)} \cup
  (IF role = "video" THEN {Event("finished", FileTempVideo, FALSE)}
   ELSE IF role = "audio" THEN {Event("finished", FileTempAudio, FALSE)}
   ELSE IF audio_only THEN {Event("finished", FileMp3, FALSE)}
   ELSE {Event("finished", FilePlain, FALSE), Event("finished", FilePlain, TRUE),
         Event("finished", FileTitled, FALSE), Event("finished", FileFormat, FALSE),
         Event("finished", FileWebm, FALSE)})

\* Metadata yt-dlp's extract_info returns: the formats of the video
Format(format_id, vcodec, acodec, height, protocol, rate, language) ==
  [format_id |-> format_id, vcodec |-> vcodec, acodec |-> acodec, height |-> height,
   protocol |-> protocol, rate |-> rate, language |-> language]

NoInfo == [ok |-> FALSE, formats |-> <<>>]
InfoSeparate ==
  [ok |-> TRUE,
   formats |-> <<Format("18", "avc1", "mp4a", 360, "https", 500, "en"),
                 Format("136", "avc1", "none", 720, "https", 2000, None),
                 Format("137", "avc1", "none", 1080, "m3u8_native", 4000, None),
                 Format("140", "none", "mp4a", 0, "https", 128, "en"),
                 Format("251", "none", "opus", 0, "https", 160, "ru")>>]
InfoMuxed ==
  [ok |-> TRUE,
   formats |-> <<Format("18", "avc1", "mp4a", 360, "https", 500, "en"),
                 Format("22", "avc1", "mp4a", 720, "https", 1500, "en")>>]
InfoAudio ==
  [ok |-> TRUE, formats |-> <<Format("140", "none", "mp4a", 0, "https", 128, "en")>>]
VideoInfos == {InfoSeparate, InfoMuxed, InfoAudio}

\* web_app.py:249: download_id is None until the first set_download_id
NoId == 0

\* ---- state ----------------------------------------------------------------
VARIABLES
  merger,               \* VideoMerger.available / .ffmpeg_available, detected once
  downloader,           \* the process-wide WebDownloader instance (web_app.py:326)
  active_downloads,     \* web_app.py:198
  completed_downloads,  \* web_app.py:199
  req,                  \* the request body each start_download call captured
  pc,                   \* position of every thread
  retry,                \* _ydl_download_with_ssl_fallback: loop variable retry
  events,               \* progress events yt-dlp emitted during the running backend call
  prev_insecure,        \* download_task: prev_insecure
  selected_audio_lang,  \* _download_standard_mode: selected_audio_lang
  quality_options,      \* _download_standard_mode: quality_options
  attempt,              \* _download_standard_mode: loop index attempt
  success,              \* download_task: success
  video_info,           \* _get_video_info result held by the caller
  info_attempt,         \* _get_video_info: loop variable attempt
  stream_file,          \* _download_separate_streams: video_file / audio_file
  temp_dir,             \* _download_ultra_mode: the TemporaryDirectory exists
  obs,                  \* what each job was seen to do (history, read by the properties)
  now,                  \* time.time(), in tenths of a second
  config,               \* config.py: the settings read from the environment at import
  video_info_cache,     \* web_app.py:202 _video_info_cache, in dict (insertion) order
  handler,              \* position and locals of each /api/video_info request thread
  last_progress_time,   \* youtube_downloader.py:263 self._last_progress_time
  hook,                 \* position and locals of each running _progress_hook call
  sink,                 \* the events progress_hook_callback received, in order
  ladder,               \* a run of the ladder loop of _download_standard_mode
  trim,                 \* a call of _apply_trim_to_file and the directory it works in
  ssl_retries,          \* history: nocheckcertificate retries of the running helper call
  selection,            \* a call of _select_formats: its arguments and what it returned
  validation,           \* a call of _validate_and_fix_file and the directory it works in
  rate_limit_data,      \* web_app.py:62 _rate_limit_data: client address -> request times
  rate_limit_lock,      \* web_app.py:63 _rate_limit_lock: the request thread that holds it
  wrapped,              \* position and locals of each request thread inside rate_limit
  accepted              \* history: the requests rate_limit let through to their endpoint

core_vars == <<merger, downloader, active_downloads, completed_downloads, req, pc, retry,
               events, prev_insecure, selected_audio_lang, quality_options, attempt,
               success, video_info, info_attempt, stream_file, temp_dir, obs>>
rate_vars == <<rate_limit_data, rate_limit_lock, wrapped, accepted>>
more_vars == <<selection, validation, rate_vars>>
post_vars == <<trim, ssl_retries, more_vars>>
OtherServices == <<now, config, video_info_cache, handler, last_progress_time, hook, sink,
                   ladder, more_vars>>
service_vars == <<now, config, video_info_cache, handler, last_progress_time, hook, sink,
                  ladder, trim, ssl_retries, more_vars>>
\* the services that do not read the clock of the rate limiter
timeless_services == <<config, video_info_cache, handler, last_progress_time, hook, sink,
                       ladder, trim, ssl_retries>>
first_services == <<now, timeless_services>>
vars == <<core_vars, service_vars>>

NoObs ==
  [cancelSeen |-> FALSE,    \* a check point of the job found _is_cancelled() true
   faults |-> 0,            \* backend failures injected so far
   stdRuns |-> 0,           \* invocations of _download_standard_mode
   ultraFail |-> None,      \* step at which the dual-stream pipeline failed
   stdResult |-> None,      \* what the last _download_standard_mode returned
   delay |-> 0,             \* last handle_403_error backoff
   user_agent |-> None,     \* the User-Agent handle_403_error last put into the headers
   trimmed |-> NoFile]      \* the file _progress_hook last handed to _apply_trim_to_file

\* web_app.py:255-265
NewRecord(audio_only) ==
  [status |-> "starting", cancelled |-> FALSE, filename |-> NoFile, audio_only |-> audio_only]

Remove(f, k) == [x \in DOMAIN f \ {k} |-> f[x]]

\* youtube_downloader.py:266-274
is_cancelled ==
  IF downloader.download_id \in DOMAIN active_downloads
  THEN active_downloads[downloader.download_id].cancelled
  ELSE FALSE

\* web_app.py:269-322: the pair <<active_downloads, completed_downloads>> after the hook
web_progress_hook(d) ==
  LET id == downloader.download_id IN
  IF id \notin DOMAIN active_downloads THEN <<active_downloads, completed_downloads>>
  ELSE
    LET download_info == active_downloads[id]
        is_temp_file == InLower("temp", d.filename) \/ InLower("tmp", d.filename)
        is_partial_stream ==
          \/ InLower("audio", d.filename) \/ InLower("video", d.filename)
          \/ EndsWith(d.filename, ".webm") \/ EndsWith(d.filename, ".m4a")
          \/ is_temp_file
        done == [download_info EXCEPT !.status = "completed", !.filename = PathName(d.filename),
                                      !.audio_only = downloader.audio_only]
    IN
    IF d.status = "downloading"
    THEN <<[active_downloads EXCEPT ![id].status = "downloading",
                                    ![id].audio_only = downloader.audio_only],
           completed_downloads>>
    ELSE IF d.status = "finished"
    THEN IF d.fragment THEN <<active_downloads, completed_downloads>>
         ELSE IF ~downloader.audio_only /\ is_partial_stream
         THEN <<[active_downloads EXCEPT ![id].status = "processing"], completed_downloads>>
         ELSE <<Remove(active_downloads, id), (id :> done) @@ completed_downloads>>
    ELSE <<active_downloads, completed_downloads>>


\* ---- the metadata cache, the progress throttle and the clock ---------------
\* The clock counts tenths of a second
Seconds(s) == s * 10
StartTime == 10          \* the reading of the clock when the server starts
TimeStep == 1500         \* the clock advances by this much between two cache requests
MaxTime == 3200          \* the last reading of the clock
MaxHookTime == 15        \* the last reading of the clock while hooks run

\* web_app.py:203
cache_ttl == 300
\* web_app.py:238, the literal the length of the cache is compared with
CacheLimit == 100
\* web_app.py:241, the length of the slice of sorted_items that is deleted
EvictBatch == 20
\* config.py:30 and config.py:29, the defaults of the environment variables
DefaultMaxCacheSize == 100
DefaultCacheTtl == 300
\* a value an operator gives MAX_CACHE_SIZE in the environment
SmallMaxCacheSize == 50
\* youtube_downloader.py:264, 0.5 s
progress_throttle_interval == 5

NumHandlers == 2
MaxRequests == 2         \* requests the handler thread serves when it is alone
MaxRaceRequests == 1     \* requests each of the concurrent handler threads serves
Handlers == 1..NumHandlers
HookThreads == {"video", "audio"}
MaxHookCalls == 2        \* events yt-dlp reports to the hook on one stream thread

\* URLs are numbered; the server has answered the first `n` of them before
NumFreshUrls == 2
Urls == 1..(CacheLimit + NumFreshUrls)
\* the URLs clients ask about
AskedUrls == {1, CacheLimit - 1} \cup ((CacheLimit + 1)..(CacheLimit + NumFreshUrls))

\* What downloader.get_video_info answers for a URL (web_app.py:700-851)
InfoOf(url) == [id |-> url]

IdleHandler == [pc |-> "idle", url |-> 0, sorted_items |-> <<>>, i |-> 0, result |-> "none",
                info |-> None, served |-> 0]
IdleHook == [pc |-> "idle", d |-> None, current_time |-> 0, calls |-> 0]
NoLadder == [pc |-> "idle"]
\* the downloaded file and the name _apply_trim_to_file gives the cut copy (699-700)
FilePath == "video.mp4"
TrimmedPath == "video_trimmed.mp4"
\* which of the two names exist in the download directory
OnlyOriginal == [original |-> TRUE, trimmed |-> FALSE]
NoTrim == [pc |-> "idle", trim_start |-> None, trim_end |-> None, files |-> OnlyOriginal,
           commands |-> <<>>, result |-> None]

NoSelection == [pc |-> "idle"]
\* a file that does not exist has no content
Absent == <<>>
NoValidation == [pc |-> "idle", files |-> <<>>, filename |-> NoFile, before |-> Absent,
                 had_backup |-> FALSE, result |-> None]
\* request threads of the web server that pass through rate_limit
NumRequests == 2
RequestThreads == 1..NumRequests
NoLock == 0
IdleRequest == [pc |-> "idle", client_ip |-> None, endpoint |-> None, current_time |-> 0]
\* The state the later services start in
InitMore ==
  /\ selection = NoSelection
  /\ validation = NoValidation
  /\ rate_limit_data = <<>>
  /\ rate_limit_lock = NoLock
  /\ wrapped = [r \in RequestThreads |-> IdleRequest]
  /\ accepted = <<>>

\* The services after construction
InitFirst ==
  /\ now = StartTime
  /\ config = [MAX_CACHE_SIZE |-> DefaultMaxCacheSize,
               VIDEO_INFO_CACHE_TTL |-> DefaultCacheTtl]
  /\ video_info_cache = <<>>
  /\ handler = [c \in Handlers |-> IdleHandler]
  /\ last_progress_time = 0
  /\ hook = [s \in HookThreads |-> IdleHook]
  /\ sink = <<>>
  /\ ladder = NoLadder
  /\ trim = NoTrim
  /\ ssl_retries = [t \in Threads |-> 0]

InitService == InitFirst /\ InitMore

\* The download pipeline after construction
InitCore ==
  /\ merger \in [available : BOOLEAN, ffmpeg_available : BOOLEAN]
  /\ downloader = [download_id |-> NoId, insecure_ssl |-> FALSE, audio_only |-> FALSE,
                   audio_language |-> None, trim |-> None, progress_hook_callback |-> FALSE]
  /\ active_downloads = <<>>
  /\ completed_downloads = <<>>
  /\ req = <<>>
  /\ pc = [t \in Threads |-> "idle"]
  /\ retry = [t \in Threads |-> 0]
  /\ events = [t \in Threads |-> NoEvents]
  /\ prev_insecure = [j \in Jobs |-> FALSE]
  /\ selected_audio_lang = [j \in Jobs |-> None]
  /\ quality_options = [j \in Jobs |-> <<>>]
  /\ attempt = [j \in Jobs |-> 0]
  /\ success = [j \in Jobs |-> FALSE]
  /\ video_info = [j \in Jobs |-> NoInfo]
  /\ info_attempt = [j \in Jobs |-> 0]
  /\ stream_file = [t \in Threads |-> NoFile]
  /\ temp_dir = [j \in Jobs |-> FALSE]
  /\ obs = [j \in Jobs |-> NoObs]

Init == InitCore /\ InitService

\* Where neither MoviePy nor FFmpeg is installed the dual-stream pipeline is never
\* entered
InitJobs == Init /\ ~merger.available /\ ~merger.ffmpeg_available

\* ---- dual-stream candidate selection --------------------------------------
HasVideo(f) == f.vcodec # "none" /\ f.vcodec # ""
HasAudio(f) == f.acodec # "none" /\ f.acodec # ""
IsM3u8(protocol) == protocol \in {"m3u8", "m3u8_native"}
IsHttps(protocol) == protocol = "https"
IdHas(needle, format_id) ==
  \/ needle = "hls" /\ format_id \in {"hls-720", "hls-audio"}
  \/ needle = "dash" /\ format_id \in {"dash-1080", "dash-audio"}

\* youtube_downloader.py:1455-1465 (and 1481-1489)
reliability_score(f, is_dzen) ==
  IF is_dzen
  THEN LET is_hls == IdHas("hls", f.format_id) \/ IsM3u8(f.protocol)
           is_dash == IdHas("dash", f.format_id) /\ ~is_hls
       IN IF is_hls THEN 2 ELSE IF is_dash THEN 0 ELSE 1
  ELSE IF IsHttps(f.protocol) /\ ~IsM3u8(f.protocol) THEN 1 ELSE 0

\* youtube_downloader.py:1418-1422
target_height(quality) ==
  CASE Lower(quality) \in {"best", "4k"} -> 2160
    [] Lower(quality) = "1440p" -> 1440
    [] Lower(quality) = "1080p" -> 1080
    [] Lower(quality) = "720p" -> 720
    [] Lower(quality) = "480p" -> 480
    [] Lower(quality) = "360p" -> 360
    [] OTHER -> 1080

Abs(n) == IF n < 0 THEN 0 - n ELSE n
LexLess(a, b) ==
  \E i \in 1..Len(a) : a[i] < b[i] /\ \A k \in 1..(i - 1) : a[k] = b[k]

\* list.sort(key=...)[0]: the first element of least key; keys[i] is the key of s[i]
FirstOfLeastKey(s, keys) ==
  s[CHOOSE i \in DOMAIN s :
      /\ \A k \in DOMAIN s : ~LexLess(keys[k], keys[i])
      /\ \A k \in 1..(i - 1) : LexLess(keys[i], keys[k])]

\* youtube_downloader.py:1408-1550: <<video format id, audio format id>>
select_formats(info, quality, is_dzen, audio_lang) ==
  LET formats == info.formats
      muxed(f) == HasVideo(f) /\ HasAudio(f)
      has_muxed_only == \A i \in DOMAIN formats : HasVideo(formats[i]) => muxed(formats[i])
      IsVideoOnly(f) == HasVideo(f) /\ ~HasAudio(f) /\ f.height > 0
      IsAudioOnly(f) == HasAudio(f) /\ ~HasVideo(f)
                        /\ (audio_lang # None => f.language = audio_lang)
      video_formats == SelectSeq(formats, IsVideoOnly)
      audio_formats == SelectSeq(formats, IsAudioOnly)
      VideoKey(f) == <<0 - reliability_score(f, is_dzen), Abs(f.height - target_height(quality)),
                       0 - f.height, 0 - f.rate>>
      AudioKey(f) == <<0 - reliability_score(f, is_dzen), 0 - f.rate>>
  IN IF has_muxed_only THEN <<None, None>>
     ELSE IF video_formats = <<>> \/ audio_formats = <<>> THEN <<None, None>>
     ELSE <<FirstOfLeastKey(video_formats, [i \in DOMAIN video_formats |-> VideoKey(video_formats[i])]).format_id,
            FirstOfLeastKey(audio_formats, [i \in DOMAIN audio_formats |-> AudioKey(audio_formats[i])]).format_id>>

\* ---- web layer ------------------------------------------------------------
Set(f, k, v) == [f EXCEPT ![k] = v]
Note(j, field, v) == [obs EXCEPT ![j][field] = v]

\* web_app.py:863-966 start_download: the request is parsed, the id drawn, the worker
\* thread started and the id returned to the client
start_download(j, r) ==
  /\ UNCHANGED service_vars
  /\ pc[M(j)] = "idle"
  /\ \A k \in 1..(j - 1) : k \in DOMAIN req
  /\ req' = (j :> r) @@ req
  /\ pc' = Set(pc, M(j), "task_begin")
  /\ UNCHANGED <<merger, downloader, active_downloads, completed_downloads, retry, events,
                 prev_insecure, selected_audio_lang, quality_options, attempt, success,
                 video_info, info_attempt, stream_file, temp_dir, obs>>

\* web_app.py:631-639 cancel_download, called with an id start_download returned:
\* 200 and the flag is set when the id is in active_downloads, 400 otherwise
cancel_accepted(j) == j \in DOMAIN active_downloads

cancel_download(j) ==
  /\ UNCHANGED service_vars
  /\ j \in DOMAIN req
  /\ Cardinality({k \in DOMAIN active_downloads \ {j} : active_downloads[k].cancelled})
       + Cardinality({k \in DOMAIN completed_downloads \ {j} : completed_downloads[k].cancelled})
       < MaxCancels
  /\ active_downloads' = IF cancel_accepted(j)
                         THEN [active_downloads EXCEPT ![j].cancelled = TRUE]
                         ELSE active_downloads
  /\ UNCHANGED <<merger, downloader, completed_downloads, req, pc, retry, events,
                 prev_insecure, selected_audio_lang, quality_options, attempt, success,
                 video_info, info_attempt, stream_file, temp_dir, obs>>

\* web_app.py:917-923 download_task: save the flag, then write the request's options
\* into the shared downloader
task_begin(j) ==
  /\ UNCHANGED service_vars
  /\ pc[M(j)] = "task_begin"
  /\ prev_insecure' = Set(prev_insecure, j, downloader.insecure_ssl)
  /\ downloader' = [downloader EXCEPT !.insecure_ssl = req[j].insecure_ssl,
                                      !.audio_only = req[j].audio_only,
                                      !.audio_language = req[j].audio_language,
                                      !.trim = req[j].trim]
  /\ pc' = Set(pc, M(j), "task_set_id")
  /\ UNCHANGED <<merger, active_downloads, completed_downloads, req, retry, events,
                 selected_audio_lang, quality_options, attempt, success,
                 video_info, info_attempt, stream_file, temp_dir, obs>>

\* web_app.py:924 and 251-267 set_download_id
set_download_id(j) ==
  /\ UNCHANGED service_vars
  /\ pc[M(j)] = "task_set_id"
  /\ downloader' = [downloader EXCEPT !.download_id = j, !.progress_hook_callback = TRUE]
  /\ active_downloads' = (j :> NewRecord(downloader.audio_only)) @@ active_downloads
  /\ pc' = Set(pc, M(j), "download")
  /\ UNCHANGED <<merger, completed_downloads, req, retry, events, prev_insecure,
                 selected_audio_lang, quality_options, attempt, success,
                 video_info, info_attempt, stream_file, temp_dir, obs>>

\* youtube_downloader.py:865-958 download, entered through download_video (860-863)
\* with mode "auto"
download(j) ==
  /\ UNCHANGED service_vars
  /\ pc[M(j)] = "download"
  /\ LET mode == IF merger.ffmpeg_available THEN "ultra" ELSE "standard" IN
     pc' = Set(pc, M(j),
               IF req[j].audio_only THEN "audio_only"
               ELSE IF mode = "ultra" /\ merger.available THEN "info_call"
               ELSE "std_enter")
  /\ info_attempt' = Set(info_attempt, j, 0)
  /\ UNCHANGED <<merger, downloader, active_downloads, completed_downloads, req, retry,
                 events, prev_insecure, selected_audio_lang, quality_options, attempt,
                 success, video_info, stream_file, temp_dir, obs>>

\* ---- returns of the download paths ----------------------------------------
B2S(b) == IF b THEN "true" ELSE "false"
RECURSIVE Faults(_)
Faults(js) == IF js = {} THEN 0
              ELSE LET j == CHOOSE k \in js : TRUE IN obs[j].faults + Faults(js \ {j})
FaultOk(j, cap) == Faults(Jobs) < cap
Fault(o) == [o EXCEPT !.faults = @ + 1]

\* youtube_downloader.py:99-121 handle_403_error: the header profile and the backoff
user_agents == <<"Chrome/121 Windows", "Chrome/120 Windows", "Chrome/121 Mac",
                 "Firefox/122 Windows", "Chrome/121 Linux">>
Min(a, b) == IF a < b THEN a ELSE b
handle_403_error(attempt_no, jitter) ==
  [user_agent |-> user_agents[(attempt_no % Len(user_agents)) + 1],
   delay |-> IF attempt_no > 0 THEN Min(30, 5 + attempt_no * 3 + jitter) ELSE 0]

\* an except block that gives the download up when the failure is of no known class
std_except_giving_up(platform, error_msg, attempt_no, ladder_len, jitter) ==
  LET none == [user_agent |-> None, delay |-> 0] IN
  IF platform = "dzen" /\ (Has("400", error_msg) \/ Has("404", error_msg))
  THEN [next |-> IF attempt_no = 0 THEN "next" ELSE "return", recovery |-> none]
  ELSE IF platform = "rutube" /\ (Has("WinError 5", error_msg) \/ Has("Access is denied", error_msg))
  THEN [next |-> "next", recovery |-> none]
  ELSE IF platform = "twitch" /\ (Has("Initialization fragment", error_msg) \/ HasLower("fragment", error_msg))
  THEN [next |-> IF attempt_no < 2 THEN "next" ELSE "return", recovery |-> none]
  ELSE IF Has("403", error_msg) \/ Has("Forbidden", error_msg)
  THEN [next |-> "next",
        recovery |-> IF attempt_no < 2 THEN handle_403_error(attempt_no, jitter) ELSE none]
  ELSE IF Has("404", error_msg)
  THEN [next |-> "return", recovery |-> none]
  ELSE [next |-> "return", recovery |-> none]

\* youtube_downloader.py:1154-1216, the except block of the ladder loop: "next" for
\* continue (or falling out of the block), "return" for return False
std_except(platform, error_msg, attempt_no, ladder_len, jitter) ==
  LET none == [user_agent |-> None, delay |-> 0] IN
  IF platform = "dzen" /\ (Has("400", error_msg) \/ Has("404", error_msg))
  THEN [next |-> IF attempt_no = 0 THEN "next" ELSE "return", recovery |-> none]
  ELSE IF platform = "rutube" /\ (Has("WinError 5", error_msg) \/ Has("Access is denied", error_msg))
  THEN [next |-> "next", recovery |-> none]
  ELSE IF platform = "twitch" /\ (Has("Initialization fragment", error_msg) \/ HasLower("fragment", error_msg))
  THEN [next |-> IF attempt_no < 2 THEN "next" ELSE "return", recovery |-> none]
  ELSE IF Has("403", error_msg) \/ Has("Forbidden", error_msg)
  THEN [next |-> "next",
        recovery |-> IF attempt_no < 2 THEN handle_403_error(attempt_no, jitter) ELSE none]
  ELSE IF Has("404", error_msg)
  THEN [next |-> "return", recovery |-> none]
  ELSE [next |-> "next", recovery |-> none]

\* the same return with the TemporaryDirectory of the caller left in place
std_return_keeping_temp_dir(j, ok, o) ==
  /\ success' = Set(success, j, ok)
  /\ temp_dir' = temp_dir
  /\ obs' = Set(obs, j, [o EXCEPT !.stdResult = B2S(ok)])
  /\ pc' = Set(pc, M(j), "task_finish")
  /\ UNCHANGED <<attempt, stream_file>>

\* return of _download_standard_mode to download_task, through _download_ultra_mode
\* when it was the fallback (the TemporaryDirectory is left on the way out)
std_return(j, ok, o) ==
  /\ success' = Set(success, j, ok)
  /\ temp_dir' = Set(temp_dir, j, FALSE)
  /\ obs' = Set(obs, j, [o EXCEPT !.stdResult = B2S(ok)])
  /\ pc' = Set(pc, M(j), "task_finish")
  /\ UNCHANGED <<attempt, stream_file>>

\* What the caller does with the value _ydl_download_with_ssl_fallback returns:
\* 1147-1152 and the except block (standard mode), 1283-1287 (audio only),
\* 1582-1602 / 1628-1648 (a stream thread)
helper_return(t, ok, o) ==
  LET j == t[1] IN
  /\ retry' = Set(retry, t, 0)
  /\ ssl_retries' = Set(ssl_retries, t, 0)
  /\ events' = Set(events, t, NoEvents)
  /\ IF t[2] # "main"
       THEN /\ stream_file' = Set(stream_file, t,
                                  IF ~ok THEN NoFile
                                  ELSE IF t[2] = "video" THEN FileTempVideo ELSE FileTempAudio)
            /\ pc' = Set(pc, t, "finished")
            /\ obs' = Set(obs, j, o)
            /\ UNCHANGED <<attempt, success, temp_dir>>
       ELSE IF req[j].audio_only
       THEN /\ success' = Set(success, j, ok)
            /\ pc' = Set(pc, t, "task_finish")
            /\ obs' = Set(obs, j, o)
            /\ UNCHANGED <<attempt, stream_file, temp_dir>>
       ELSE IF ok THEN std_return(j, TRUE, o)
       ELSE \E jitter \in 1..3 :
              LET x == std_except(detect_platform(req[j].url), MsgDownloadFailed, attempt[j],
                                  Len(quality_options[j]), jitter)
                  o2 == [o EXCEPT !.delay = x.recovery.delay,
                                  !.user_agent = x.recovery.user_agent]
              IN IF x.next = "return" THEN std_return(j, FALSE, o2)
                 ELSE /\ attempt' = Set(attempt, j, attempt[j] + 1)
                      /\ pc' = Set(pc, t, "std_loop")
                      /\ obs' = Set(obs, j, o2)
                      /\ UNCHANGED <<success, stream_file, temp_dir>>

\* ---- _ydl_download_with_ssl_fallback (youtube_downloader.py:1342-1406) -----
\* 1347
max_retries == 3
\* 1369 and 1397: the pause before the next pass, in tenths of a second (1.5 s, 2.5 s)
wait_time(retry_no) == 15 + retry_no * 10
\* 1348-1352: one pass of the retry loop starts a backend download
ydl_call(t) ==
  /\ UNCHANGED service_vars
  /\ pc[t] = "ydl_call"
  /\ pc' = Set(pc, t, "ydl_run")
  /\ events' = Set(events, t, NoEvents)
  /\ UNCHANGED <<merger, downloader, active_downloads, completed_downloads, req, retry,
                 prev_insecure, selected_audio_lang, quality_options, attempt, success,
                 video_info, info_attempt, stream_file, temp_dir, obs>>

\* 1361-1404: the except block for a failure of the first call of a pass
ydl_failed(t, err_str, o) ==
  IF Has("WinError 5", err_str) \/ Has("Access is denied", err_str)
  THEN IF retry[t] < max_retries - 1
       THEN /\ retry' = Set(retry, t, retry[t] + 1)
            /\ pc' = Set(pc, t, "ydl_call")
            /\ obs' = Set(obs, t[1], o)
            /\ UNCHANGED <<attempt, success, stream_file, temp_dir, events, ssl_retries>>
       ELSE helper_return(t, FALSE, o)
  ELSE IF is_ssl_error(err_str)
  THEN IF ~downloader.insecure_ssl
       THEN /\ pc' = Set(pc, t, "ydl_ssl_run")
            /\ events' = Set(events, t, NoEvents)
            /\ obs' = Set(obs, t[1], o)
            /\ ssl_retries' = Set(ssl_retries, t, ssl_retries[t] + 1)
            /\ UNCHANGED <<attempt, success, stream_file, temp_dir, retry>>
       ELSE helper_return(t, FALSE, o)
  ELSE helper_return(t, FALSE, o)

\* an except block of the nocheckcertificate call that goes on past the last pass
ydl_ssl_failed_past_last_pass(t, ssl_err_str, o) ==
  IF Has("WinError 5", ssl_err_str) \/ Has("Access is denied", ssl_err_str)
  THEN /\ retry' = Set(retry, t, retry[t] + 1)
       /\ pc' = Set(pc, t, "ydl_call")
       /\ obs' = Set(obs, t[1], o)
       /\ UNCHANGED <<attempt, success, stream_file, temp_dir, events, ssl_retries>>
  ELSE helper_return(t, FALSE, o)

\* 1392-1401: the except block for a failure of the nocheckcertificate call
ydl_ssl_failed(t, ssl_err_str, o) ==
  IF (Has("WinError 5", ssl_err_str) \/ Has("Access is denied", ssl_err_str))
     /\ retry[t] < max_retries - 1
  THEN /\ retry' = Set(retry, t, retry[t] + 1)
       /\ pc' = Set(pc, t, "ydl_call")
       /\ obs' = Set(obs, t[1], o)
       /\ UNCHANGED <<attempt, success, stream_file, temp_dir, events, ssl_retries>>
  ELSE helper_return(t, FALSE, o)

\* ydl.download([url]) returns or raises (1352 / 1361)
ydl_return(t, cap) ==
  /\ UNCHANGED <<OtherServices, trim>>
  /\ pc[t] = "ydl_run"
  /\ \/ events[t].finished /\ helper_return(t, TRUE, obs[t[1]])
     \/ /\ FaultOk(t[1], cap)
        /\ \E e \in DownloadErrors : ydl_failed(t, e, Fault(obs[t[1]]))
  /\ UNCHANGED <<merger, downloader, active_downloads, completed_downloads, req,
                 prev_insecure, selected_audio_lang, quality_options, video_info,
                 info_attempt>>

\* the retry with nocheckcertificate=True returns or raises (1384 / 1392)
ydl_ssl_return(t, cap) ==
  /\ UNCHANGED <<OtherServices, trim>>
  /\ pc[t] = "ydl_ssl_run"
  /\ \/ events[t].finished /\ helper_return(t, TRUE, obs[t[1]])
     \/ /\ FaultOk(t[1], cap)
        /\ \E e \in DownloadErrors : ydl_ssl_failed(t, e, Fault(obs[t[1]]))
  /\ UNCHANGED <<merger, downloader, active_downloads, completed_downloads, req,
                 prev_insecure, selected_audio_lang, quality_options, video_info,
                 info_attempt>>

\* 431-434: the markers _progress_hook takes for the name of a stream still to be merged
is_intermediate(filename) ==
  \E marker \in {".fdash-", ".dash-", ".dash_sep-", ".f251-", ".f140-", ".m4a.", ".webm."} :
     InLower(marker, filename)

\* 418-437: the file a progress event makes _progress_hook hand to _apply_trim_to_file
\* (NoFile when it trims nothing); _validate_and_fix_file is taken to leave the name
trim_target(d) ==
  IF d.status \in {"finished", "done"} /\ d.filename # NoFile
     /\ downloader.trim # None /\ ~is_intermediate(d.filename)
  THEN d.filename
  ELSE NoFile

\* youtube_downloader.py:411-469 _progress_hook, called by yt-dlp during a download
progress_hook(t) ==
  /\ UNCHANGED <<OtherServices, trim>>
  /\ pc[t] \in {"ydl_run", "ydl_ssl_run"}
  /\ ~events[t].finished
  /\ \E d \in EventsOf(t[2], req[t[1]].audio_only) :
       /\ IsFinal(d) \/ events[t].count < MaxEvents
       /\ IF is_cancelled
          THEN \* 414-415: the raise propagates out of ydl.download into the helper
               LET o == [obs[t[1]] EXCEPT !.cancelSeen = TRUE] IN
               /\ IF pc[t] = "ydl_run" THEN ydl_failed(t, MsgCancelled, o)
                  ELSE ydl_ssl_failed(t, MsgCancelled, o)
               /\ UNCHANGED <<active_downloads, completed_downloads>>
          ELSE \* 459-469: the callback is throttled except for a finished event
               /\ events' = Set(events, t,
                                IF IsFinal(d) THEN [events[t] EXCEPT !.finished = TRUE]
                                ELSE [events[t] EXCEPT !.count = @ + 1])
               /\ \E elapsed \in BOOLEAN :
                    LET after == web_progress_hook(d)
                        forwarded == downloader.progress_hook_callback
                                     /\ (d.status = "finished" \/ elapsed)
                    IN /\ active_downloads' = IF forwarded THEN after[1] ELSE active_downloads
                       /\ completed_downloads' = IF forwarded THEN after[2]
                                                 ELSE completed_downloads
               /\ obs' = IF trim_target(d) = NoFile THEN obs
                         ELSE [obs EXCEPT ![t[1]].trimmed = trim_target(d)]
               /\ UNCHANGED <<pc, retry, attempt, success, stream_file, temp_dir,
                               ssl_retries>>
  /\ UNCHANGED <<merger, downloader, req, prev_insecure, selected_audio_lang,
                 quality_options, video_info, info_attempt>>

\* ---- _get_video_info (youtube_downloader.py:1292-1340) --------------------
\* 1413-1414: the test on the URL as written (no lower-casing)
is_dzen_url(url) == In("dzen.ru", url) \/ In("zen.yandex", url)
has_video(info) == \E i \in DOMAIN info.formats : HasVideo(info.formats[i])

\* where _get_video_info returns to: 982-985 inside the TemporaryDirectory, or the
\* quick check of download (943-958)
after_info(j, info) ==
  IF temp_dir[j] THEN "ultra_select"
  ELSE IF info.ok /\ ~has_video(info) THEN "std_enter"
  ELSE "ultra_enter"

\* the result stays in the caller's local video_info only inside _download_ultra_mode;
\* download tests it at once and drops it
held(j, info) == IF temp_dir[j] THEN info ELSE NoInfo

\* 1296-1309: the options are built (with _apply_ssl_options) and extract_info starts
info_call(j) ==
  /\ UNCHANGED service_vars
  /\ pc[M(j)] = "info_call"
  /\ pc' = Set(pc, M(j), "info_run")
  /\ UNCHANGED <<merger, downloader, active_downloads, completed_downloads, req, retry,
                 events, prev_insecure, selected_audio_lang, quality_options, attempt,
                 success, video_info, info_attempt, stream_file, temp_dir, obs>>

\* 1331-1340: the end of one pass of the loop without a result
info_next(j, o) ==
  /\ obs' = Set(obs, j, o)
  /\ IF info_attempt[j] = 2
     THEN /\ video_info' = Set(video_info, j, held(j, NoInfo))
          /\ pc' = Set(pc, M(j), after_info(j, NoInfo))
          /\ UNCHANGED info_attempt
     ELSE /\ info_attempt' = Set(info_attempt, j, info_attempt[j] + 1)
          /\ pc' = Set(pc, M(j), "info_call")
          /\ UNCHANGED video_info

\* 1309 / 1311-1316: extract_info returns the metadata or raises
info_return(j, cap) ==
  /\ UNCHANGED service_vars
  /\ pc[M(j)] = "info_run"
  /\ \/ \E info \in VideoInfos :
          /\ video_info' = Set(video_info, j, held(j, info))
          /\ pc' = Set(pc, M(j), after_info(j, info))
          /\ UNCHANGED <<info_attempt, obs>>
     \/ /\ FaultOk(j, cap)
        /\ \E e \in InfoErrors :
             IF is_ssl_error(e) /\ ~downloader.insecure_ssl
             THEN /\ pc' = Set(pc, M(j), "info_ssl_run")
                  /\ obs' = Set(obs, j, Fault(obs[j]))
                  /\ UNCHANGED <<video_info, info_attempt>>
             ELSE info_next(j, Fault(obs[j]))
  /\ UNCHANGED <<merger, downloader, active_downloads, completed_downloads, req, retry,
                 events, prev_insecure, selected_audio_lang, quality_options, attempt,
                 success, stream_file, temp_dir>>

\* 1317-1329: the retry with nocheckcertificate=True returns or raises
info_ssl_return(j, cap) ==
  /\ UNCHANGED service_vars
  /\ pc[M(j)] = "info_ssl_run"
  /\ \/ \E info \in VideoInfos :
          /\ video_info' = Set(video_info, j, held(j, info))
          /\ pc' = Set(pc, M(j), after_info(j, info))
          /\ UNCHANGED <<info_attempt, obs>>
     \/ /\ FaultOk(j, cap)
        /\ \E e \in InfoErrors :
             IF Has("JSON", e) \/ HasLower("parse", e)
             THEN /\ video_info' = Set(video_info, j, held(j, NoInfo))
                  /\ pc' = Set(pc, M(j), after_info(j, NoInfo))
                  /\ obs' = Set(obs, j, Fault(obs[j]))
                  /\ UNCHANGED info_attempt
             ELSE info_next(j, Fault(obs[j]))
  /\ UNCHANGED <<merger, downloader, active_downloads, completed_downloads, req, retry,
                 events, prev_insecure, selected_audio_lang, quality_options, attempt,
                 success, stream_file, temp_dir>>

\* ---- _download_standard_mode (youtube_downloader.py:1053-1228) ------------
\* 1053-1070: platform, language preference and ladder
std_enter(j) ==
  /\ UNCHANGED service_vars
  /\ pc[M(j)] = "std_enter"
  /\ selected_audio_lang' = Set(selected_audio_lang, j, downloader.audio_language)
  /\ quality_options' = Set(quality_options, j,
        get_quality_fallbacks(req[j].quality, detect_platform(req[j].url) = "dzen",
                              merger.ffmpeg_available))
  /\ attempt' = Set(attempt, j, 0)
  /\ obs' = [obs EXCEPT ![j].stdRuns = @ + 1]
  /\ pc' = Set(pc, M(j), "std_loop")
  /\ UNCHANGED <<merger, downloader, active_downloads, completed_downloads, req, retry,
                 events, prev_insecure, success, video_info, info_attempt, stream_file,
                 temp_dir>>

\* 1072-1147: the head of one pass of the ladder loop, up to the helper call; 1218-1228
\* when the ladder is used up
std_loop(j) ==
  /\ UNCHANGED service_vars
  /\ pc[M(j)] = "std_loop"
  /\ IF attempt[j] >= Len(quality_options[j])
     THEN std_return(j, FALSE, obs[j]) /\ UNCHANGED retry
     ELSE IF is_cancelled
     THEN std_return(j, FALSE, [obs[j] EXCEPT !.cancelSeen = TRUE]) /\ UNCHANGED retry
     ELSE /\ pc' = Set(pc, M(j), "ydl_call")
          /\ retry' = Set(retry, M(j), 0)
          /\ UNCHANGED <<attempt, success, stream_file, temp_dir, obs>>
  /\ UNCHANGED <<merger, downloader, active_downloads, completed_downloads, req,
                 events, prev_insecure, selected_audio_lang, quality_options,
                 video_info, info_attempt>>

\* ---- _download_audio_only (youtube_downloader.py:1230-1290) ---------------
download_audio_only(j) ==
  /\ UNCHANGED service_vars
  /\ pc[M(j)] = "audio_only"
  /\ IF is_cancelled
     THEN /\ success' = Set(success, j, FALSE)
          /\ obs' = Note(j, "cancelSeen", TRUE)
          /\ pc' = Set(pc, M(j), "task_finish")
          /\ UNCHANGED retry
     ELSE /\ pc' = Set(pc, M(j), "ydl_call")
          /\ retry' = Set(retry, M(j), 0)
          /\ UNCHANGED <<success, obs>>
  /\ UNCHANGED <<merger, downloader, active_downloads, completed_downloads, req,
                 events, prev_insecure, selected_audio_lang, quality_options, attempt,
                 video_info, info_attempt, stream_file, temp_dir>>

\* a worker that marks the record of its job failed in whichever map holds it
task_finish_any_map(j) ==
  /\ UNCHANGED service_vars
  /\ pc[M(j)] = "task_finish"
  /\ active_downloads' =
       IF ~success[j] /\ j \in DOMAIN active_downloads
       THEN [active_downloads EXCEPT ![j].status = "error"]
       ELSE active_downloads
  /\ completed_downloads' =
       IF ~success[j] /\ j \in DOMAIN completed_downloads
       THEN [completed_downloads EXCEPT ![j].status = "error"]
       ELSE completed_downloads
  /\ downloader' = [downloader EXCEPT !.insecure_ssl = prev_insecure[j]]
  /\ pc' = Set(pc, M(j), "done")
  /\ UNCHANGED <<merger, req, retry, events, prev_insecure,
                 selected_audio_lang, quality_options, attempt, success, video_info,
                 info_attempt, stream_file, temp_dir, obs>>

\* ---- download_task, after download_video returned (web_app.py:950-959) ----
task_finish(j) ==
  /\ UNCHANGED service_vars
  /\ pc[M(j)] = "task_finish"
  /\ active_downloads' =
       IF ~success[j] /\ j \in DOMAIN active_downloads
       THEN [active_downloads EXCEPT ![j].status = "error"]
       ELSE active_downloads
  /\ downloader' = [downloader EXCEPT !.insecure_ssl = prev_insecure[j]]
  /\ pc' = Set(pc, M(j), "done")
  /\ UNCHANGED <<merger, completed_downloads, req, retry, events, prev_insecure,
                 selected_audio_lang, quality_options, attempt, success, video_info,
                 info_attempt, stream_file, temp_dir, obs>>

\* ---- _download_ultra_mode (youtube_downloader.py:960-1051) ----------------
\* 967-982: capability check, cancellation check, the TemporaryDirectory is created
ultra_enter(j) ==
  /\ UNCHANGED service_vars
  /\ pc[M(j)] = "ultra_enter"
  /\ IF ~merger.ffmpeg_available
     THEN /\ pc' = Set(pc, M(j), "std_enter")
          /\ UNCHANGED <<success, temp_dir, info_attempt, obs>>
     ELSE IF is_cancelled
     THEN /\ success' = Set(success, j, FALSE)
          /\ obs' = Note(j, "cancelSeen", TRUE)
          /\ pc' = Set(pc, M(j), "task_finish")
          /\ UNCHANGED <<temp_dir, info_attempt>>
     ELSE /\ temp_dir' = Set(temp_dir, j, TRUE)
          /\ info_attempt' = Set(info_attempt, j, 0)
          /\ pc' = Set(pc, M(j), "info_call")
          /\ UNCHANGED <<success, obs>>
  /\ UNCHANGED <<merger, downloader, active_downloads, completed_downloads, req, retry,
                 events, prev_insecure, selected_audio_lang, quality_options, attempt,
                 video_info, stream_file>>

\* 983-1004: no metadata -> return False; no candidate pair -> standard mode;
\* otherwise the two stream threads are submitted (1651-1653)
ultra_select(j) ==
  /\ UNCHANGED service_vars
  /\ pc[M(j)] = "ultra_select"
  /\ LET sel == select_formats(video_info[j], req[j].quality, is_dzen_url(req[j].url),
                               downloader.audio_language)
         o == obs[j]
     IN
     IF ~video_info[j].ok
     THEN /\ success' = Set(success, j, FALSE)
          /\ temp_dir' = Set(temp_dir, j, FALSE)
          /\ obs' = Set(obs, j, [obs[j] EXCEPT !.ultraFail = "info"])
          /\ pc' = Set(pc, M(j), "task_finish")
          /\ UNCHANGED <<retry, stream_file, video_info>>
     ELSE IF sel[1] = None \/ sel[2] = None
     THEN /\ obs' = Set(obs, j, [o EXCEPT !.ultraFail = "select"])
          /\ pc' = Set(pc, M(j), "std_enter")
          /\ video_info' = Set(video_info, j, NoInfo)
          /\ UNCHANGED <<success, temp_dir, retry, stream_file>>
     ELSE /\ pc' = [pc EXCEPT ![M(j)] = "ultra_join", ![<<j, "video">>] = "ydl_call",
                              ![<<j, "audio">>] = "ydl_call"]
          /\ retry' = [retry EXCEPT ![<<j, "video">>] = 0, ![<<j, "audio">>] = 0]
          /\ stream_file' = [stream_file EXCEPT ![<<j, "video">>] = NoFile,
                                                ![<<j, "audio">>] = NoFile]
          /\ obs' = Set(obs, j, o)
          /\ UNCHANGED <<success, temp_dir, video_info>>
  /\ UNCHANGED <<merger, downloader, active_downloads, completed_downloads, req,
                 events, prev_insecure, selected_audio_lang, quality_options, attempt,
                 info_attempt>>

\* a join that hands the streams to the merge as soon as one of the two files exists
ultra_join_needing_one_file(j) ==
  /\ UNCHANGED service_vars
  /\ pc[M(j)] = "ultra_join"
  /\ pc[<<j, "video">>] = "finished" /\ pc[<<j, "audio">>] = "finished"
  /\ IF stream_file[<<j, "video">>] # NoFile \/ stream_file[<<j, "audio">>] # NoFile
     THEN /\ pc' = [pc EXCEPT ![M(j)] = "ultra_merge", ![<<j, "video">>] = "idle",
                              ![<<j, "audio">>] = "idle"]
          /\ UNCHANGED obs
     ELSE /\ pc' = [pc EXCEPT ![M(j)] = "std_enter", ![<<j, "video">>] = "idle",
                              ![<<j, "audio">>] = "idle"]
          /\ obs' = Note(j, "ultraFail", "fetch")
  /\ stream_file' = [stream_file EXCEPT ![<<j, "video">>] = NoFile,
                                        ![<<j, "audio">>] = NoFile]
  /\ video_info' = Set(video_info, j, NoInfo)
  /\ UNCHANGED <<merger, downloader, active_downloads, completed_downloads, req, retry,
                 events, prev_insecure, selected_audio_lang, quality_options, attempt,
                 success, info_attempt, temp_dir>>

\* 1654-1667 and 1006, 1036-1045: both stream threads are joined; a missing file
\* sends the job to standard mode
ultra_join(j) ==
  /\ UNCHANGED service_vars
  /\ pc[M(j)] = "ultra_join"
  /\ pc[<<j, "video">>] = "finished" /\ pc[<<j, "audio">>] = "finished"
  /\ IF stream_file[<<j, "video">>] # NoFile /\ stream_file[<<j, "audio">>] # NoFile
     THEN /\ pc' = [pc EXCEPT ![M(j)] = "ultra_merge", ![<<j, "video">>] = "idle",
                              ![<<j, "audio">>] = "idle"]
          /\ UNCHANGED obs
     ELSE /\ pc' = [pc EXCEPT ![M(j)] = "std_enter", ![<<j, "video">>] = "idle",
                              ![<<j, "audio">>] = "idle"]
          /\ obs' = Note(j, "ultraFail", "fetch")
  /\ stream_file' = [stream_file EXCEPT ![<<j, "video">>] = NoFile,
                                        ![<<j, "audio">>] = NoFile]
  /\ video_info' = Set(video_info, j, NoInfo)
  /\ UNCHANGED <<merger, downloader, active_downloads, completed_downloads, req, retry,
                 events, prev_insecure, selected_audio_lang, quality_options, attempt,
                 success, info_attempt, temp_dir>>

\* ultra_merge with the fallback of a failed merge left out: the job fails at once
ultra_merge_without_fallback(j) ==
  /\ UNCHANGED service_vars
  /\ pc[M(j)] = "ultra_merge"
  /\ \E outcome \in {"merged", "failed", "raised"}, output_path \in {FilePlain, FileTitled} :
       IF outcome = "merged"
       THEN LET after == web_progress_hook(Event("finished", output_path, FALSE)) IN
            /\ active_downloads' = IF downloader.progress_hook_callback THEN after[1]
                                   ELSE active_downloads
            /\ completed_downloads' = IF downloader.progress_hook_callback THEN after[2]
                                      ELSE completed_downloads
            /\ success' = Set(success, j, TRUE)
            /\ temp_dir' = Set(temp_dir, j, FALSE)
            /\ UNCHANGED obs
            /\ pc' = Set(pc, M(j), "task_finish")
       ELSE /\ obs' = Note(j, "ultraFail", IF outcome = "failed" THEN "merge" ELSE "exception")
            /\ temp_dir' = Set(temp_dir, j, FALSE)
            /\ success' = Set(success, j, FALSE)
            /\ pc' = Set(pc, M(j), IF outcome = "failed" THEN "task_finish" ELSE "std_enter")
            /\ UNCHANGED <<active_downloads, completed_downloads>>
  /\ UNCHANGED <<merger, downloader, req, retry, events, prev_insecure,
                 selected_audio_lang, quality_options, attempt, video_info, info_attempt,
                 stream_file>>

\* 1008-1035 and 1047-1051: the merge (_merge_with_ytdlp, 1669-1693) succeeds, fails,
\* or an exception escapes the try block
ultra_merge(j) ==
  /\ UNCHANGED service_vars
  /\ pc[M(j)] = "ultra_merge"
  /\ \E outcome \in {"merged", "failed", "raised"}, output_path \in {FilePlain, FileTitled} :
       IF outcome = "merged"
       THEN LET after == web_progress_hook(Event("finished", output_path, FALSE)) IN
            /\ active_downloads' = IF downloader.progress_hook_callback THEN after[1]
                                   ELSE active_downloads
            /\ completed_downloads' = IF downloader.progress_hook_callback THEN after[2]
                                      ELSE completed_downloads
            /\ success' = Set(success, j, TRUE)
            /\ temp_dir' = Set(temp_dir, j, FALSE)
            /\ UNCHANGED obs
            /\ pc' = Set(pc, M(j), "task_finish")
       ELSE /\ obs' = Note(j, "ultraFail", IF outcome = "failed" THEN "merge" ELSE "exception")
            /\ temp_dir' = Set(temp_dir, j, outcome = "failed")
            /\ pc' = Set(pc, M(j), "std_enter")
            /\ UNCHANGED <<active_downloads, completed_downloads, success>>
  /\ UNCHANGED <<merger, downloader, req, retry, events, prev_insecure,
                 selected_audio_lang, quality_options, attempt, video_info, info_attempt,
                 stream_file>>

\* ---- the system -----------------------------------------------------------
\* One client, the whole pipeline
Next ==
  \E j \in SoloJobs :
    \/ \E r \in SoloRequests : start_download(j, r)
    \/ cancel_download(j)
    \/ task_begin(j)
    \/ set_download_id(j)
    \/ download(j)
    \/ info_call(j)
    \/ info_return(j, MaxSoloFaults)
    \/ info_ssl_return(j, MaxSoloFaults)
    \/ ultra_enter(j)
    \/ ultra_select(j)
    \/ ultra_join(j)
    \/ ultra_merge(j)
    \/ std_enter(j)
    \/ std_loop(j)
    \/ download_audio_only(j)
    \/ task_finish(j)
    \/ \E role \in Roles :
         \/ ydl_call(<<j, role>>)
         \/ ydl_return(<<j, role>>, MaxSoloFaults)
         \/ ydl_ssl_return(<<j, role>>, MaxSoloFaults)
         \/ progress_hook(<<j, role>>)

Spec == Init /\ [][Next]_vars

\* Concurrent clients of a server without MoviePy: every job takes the standard or
\* the audio-only path
NextJobs ==
  \E j \in Jobs :
    \/ \E r \in JobRequests : start_download(j, r)
    \/ cancel_download(j)
    \/ task_begin(j)
    \/ set_download_id(j)
    \/ download(j)
    \/ std_enter(j)
    \/ std_loop(j)
    \/ download_audio_only(j)
    \/ task_finish(j)
    \/ ydl_call(M(j))
    \/ ydl_return(M(j), MaxFaults)
    \/ ydl_ssl_return(M(j), MaxFaults)
    \/ progress_hook(M(j))

SpecJobs == InitJobs /\ [][NextJobs]_vars

\* ---- properties -----------------------------------------------------------
\* The record the web layer holds for job j, in whichever map it is
NoRecord == [status |-> "none", cancelled |-> FALSE, filename |-> NoFile, audio_only |-> FALSE]
RecordOf(j) ==
  IF j \in DOMAIN active_downloads THEN active_downloads[j]
  ELSE IF j \in DOMAIN completed_downloads THEN completed_downloads[j]
  ELSE NoRecord
CancelRequested(j) == RecordOf(j).cancelled
Fetching(j) == pc[M(j)] \in {"ydl_call", "ydl_run", "ydl_ssl_run"}
InStandardLoop(j) == j \in DOMAIN req /\ ~req[j].audio_only /\ pc[M(j)] = "ydl_run"

\* The step in which the backend call of job j's current ladder entry raises `error`
FetchFails(j, error) ==
  /\ InStandardLoop(j)
  /\ ydl_failed(M(j), error, Fault(obs[j]))

\* C1: in the standard loop a ladder entry that fails with HTTP 404 makes the download
\* return failure at once: the step leaves the download path with success false and
\* the loop is not positioned on a later ladder entry.
C1_NotFoundReturnsAtOnce ==
  [][\A j \in Jobs : FetchFails(j, Msg404) =>
        pc'[M(j)] = "task_finish" /\ ~success'[j]]_vars

\* C2: a ladder entry that fails with HTTP 403 while recovery attempts remain (attempt
\* count below 2) is retried as the same entry, after a backoff of at most 30 s; the
\* loop does not move to the next entry and does not give up.
C2_ForbiddenRetriesSameEntry ==
  [][\A j \in Jobs : (FetchFails(j, Msg403) /\ attempt[j] < 2) =>
        /\ attempt'[j] = attempt[j]
        /\ pc'[M(j)] \in {"std_loop", "ydl_call"}
        /\ obs'[j].delay <= 30]_vars

\* C3: once the cancellation flag of a job is set and one of its check points has
\* observed it, the job starts no further backend fetch and ends unsuccessful.
C3_CancelledJobStops ==
  \A j \in Jobs :
    (obs[j].cancelSeen /\ CancelRequested(j)) =>
      /\ ~Fetching(j)
      /\ pc[M(j)] \in {"task_finish", "done"} => ~success[j]

\* C4: after the dual-stream pipeline failed at the merge step the standard path runs
\* (exactly once) over the full ladder of the requested quality, and what the download
\* returns is what that standard-path run returned.
C4_MergeFailureFallsBack ==
  \A j \in Jobs :
    obs[j].ultraFail = "merge" =>
      /\ pc[M(j)] \in {"std_enter", "std_loop", "ydl_call", "ydl_run", "ydl_ssl_run",
                       "task_finish", "done"}
      /\ pc[M(j)] # "std_enter" =>
           /\ obs[j].stdRuns = 1
           /\ quality_options[j] =
                get_quality_fallbacks(req[j].quality, detect_platform(req[j].url) = "dzen",
                                      merger.ffmpeg_available)
      /\ pc[M(j)] \in {"task_finish", "done"} => obs[j].stdResult = B2S(success[j])

C4_Witness ==
  \E j \in Jobs : /\ obs[j].ultraFail = "merge" /\ pc[M(j)] = "done"
                  /\ obs[j].stdResult = "true" /\ success[j]

\* C5: a video download that ends unsuccessful without having observed a cancellation
\* has run the standard path: no failure of the dual-stream pipeline is returned to
\* the caller directly.
C5_EveryFailureFallsBack ==
  \A j \in DOMAIN req :
    (/\ pc[M(j)] \in {"task_finish", "done"}
     /\ ~req[j].audio_only /\ ~success[j] /\ ~obs[j].cancelSeen)
    => obs[j].stdRuns >= 1

\* C6: a progress event of a transfer of job A leaves the record of every other job
\* as it was.
C6_ProgressStaysWithItsJob ==
  [][\A t \in Threads : progress_hook(t) =>
        \A k \in Jobs \ {t[1]} : RecordOf(k)' = RecordOf(k)]_vars

\* C7: a job observes a cancellation only if its own cancellation flag was set.
C7_CancellationPerJob ==
  \A j \in Jobs : obs[j].cancelSeen => CancelRequested(j)

\* C8: while a job is inside a download path the SSL flag, the audio language, the
\* audio-only flag and the trim range its code reads from the downloader are those
\* submitted with the job, and the language preference its ladder loop took is its own.
C8_JobReadsOwnOptions ==
  \A j \in DOMAIN req :
    /\ pc[M(j)] \in {"std_enter", "std_loop", "audio_only", "ydl_call", "ydl_run",
                     "ydl_ssl_run"} =>
         /\ downloader.insecure_ssl = req[j].insecure_ssl
         /\ downloader.audio_language = req[j].audio_language
         /\ downloader.audio_only = req[j].audio_only
         /\ downloader.trim = req[j].trim
    /\ (pc[M(j)] \in {"std_loop", "ydl_call", "ydl_run", "ydl_ssl_run"} /\ ~req[j].audio_only) =>
         selected_audio_lang[j] = req[j].audio_language

\* C9: when the worker of a job has ended, the job's record shows a terminal status,
\* and it shows completed if the download returned success.
C9_EndsInTerminalStatus ==
  \A j \in Jobs :
    pc[M(j)] = "done" =>
      /\ RecordOf(j).status \in {"completed", "error"}
      /\ success[j] => RecordOf(j).status = "completed"

\* C10: from the moment start_download has returned the job id until the job is
\* terminal, a cancel request for the id is accepted.
C10_CancelAcceptedOnceSubmitted ==
  \A j \in DOMAIN req :
    (pc[M(j)] # "done" /\ j \notin DOMAIN completed_downloads) => cancel_accepted(j)

\* ---- the metadata cache (web_app.py:201-242) -------------------------------
\* _video_info_cache is a dict: a sequence of entries in insertion order, one per key
CacheKeys(cache) == {cache[i].url : i \in DOMAIN cache}
CacheGet(cache, url) == cache[CHOOSE i \in DOMAIN cache : cache[i].url = url]
\* del _video_info_cache[url]
CacheDel(cache, url) == SelectSeq(cache, LAMBDA e : e.url # url)
\* _video_info_cache[url] = (info, timestamp): an existing key keeps its place
CacheSet(cache, url, info, timestamp) ==
  LET e == [url |-> url, info |-> info, timestamp |-> timestamp] IN
  IF url \in CacheKeys(cache)
  THEN [i \in DOMAIN cache |-> IF cache[i].url = url THEN e ELSE cache[i]]
  ELSE Append(cache, e)

\* sorted(_video_info_cache.items(), key=lambda x: x[1][1]): a stable sort by timestamp
sorted_by_timestamp(cache) ==
  LET before(p, q) == \/ cache[p].timestamp < cache[q].timestamp
                      \/ cache[p].timestamp = cache[q].timestamp /\ p < q
      rank(q) == Cardinality({p \in DOMAIN cache : before(p, q)})
  IN [r \in DOMAIN cache |-> cache[CHOOSE q \in DOMAIN cache : rank(q) = r - 1]]

\* sorted_items[:20]
Oldest(cache) == SubSeq(sorted_by_timestamp(cache), 1, Min(EvictBatch, Len(cache)))

\* The cache after the server answered the URLs 1..n, one every tenth of a second
Answered(n) ==
  [k \in 1..n |-> [url |-> k, info |-> InfoOf(k), timestamp |-> StartTime + k]]

SetHandler(c, h) == handler' = [handler EXCEPT ![c] = h]

\* web_app.py:678 and 215: a request for `url` arrives and the membership test of
\* _get_cached_video_info runs
lookup_begin(c, url, cap) ==
  /\ handler[c].pc = "idle"
  /\ handler[c].served < cap
  /\ SetHandler(c, [IdleHandler EXCEPT !.url = url, !.served = handler[c].served + 1,
                      !.pc = IF url \in CacheKeys(video_info_cache) THEN "lookup_read"
                             ELSE "fetch",
                      !.result = IF url \in CacheKeys(video_info_cache) THEN "none"
                                 ELSE "miss"])
  /\ UNCHANGED <<core_vars, post_vars, now, config, video_info_cache, last_progress_time, hook, sink,
                 ladder>>

\* The same with `<=` in the comparison of line 217
lookup_read_inclusive(c) ==
  /\ handler[c].pc = "lookup_read"
  /\ LET h == handler[c] IN
     IF h.url \notin CacheKeys(video_info_cache)
     THEN SetHandler(c, [h EXCEPT !.pc = "idle", !.result = "KeyError"])
     ELSE LET e == CacheGet(video_info_cache, h.url) IN
          IF now - e.timestamp <= Seconds(cache_ttl)
          THEN SetHandler(c, [h EXCEPT !.pc = "idle", !.result = "hit", !.info = e.info])
          ELSE SetHandler(c, [h EXCEPT !.pc = "lookup_del"])
  /\ UNCHANGED <<core_vars, post_vars, now, config, video_info_cache, last_progress_time, hook, sink,
                 ladder>>

\* web_app.py:216-219: the entry is read and its age compared with the time to live
lookup_read(c) ==
  /\ handler[c].pc = "lookup_read"
  /\ LET h == handler[c] IN
     IF h.url \notin CacheKeys(video_info_cache)
     THEN SetHandler(c, [h EXCEPT !.pc = "idle", !.result = "KeyError"])
     ELSE LET e == CacheGet(video_info_cache, h.url) IN
          IF now - e.timestamp < Seconds(cache_ttl)
          THEN SetHandler(c, [h EXCEPT !.pc = "idle", !.result = "hit", !.info = e.info])
          ELSE SetHandler(c, [h EXCEPT !.pc = "lookup_del"])
  /\ UNCHANGED <<core_vars, post_vars, now, config, video_info_cache, last_progress_time, hook, sink,
                 ladder>>

\* web_app.py:221-222: the expired entry is deleted and the lookup returns None
lookup_del(c) ==
  /\ handler[c].pc = "lookup_del"
  /\ LET h == handler[c] IN
     IF h.url \notin CacheKeys(video_info_cache)
     THEN /\ SetHandler(c, [h EXCEPT !.pc = "idle", !.result = "KeyError"])
          /\ UNCHANGED video_info_cache
     ELSE /\ video_info_cache' = CacheDel(video_info_cache, h.url)
          /\ SetHandler(c, [h EXCEPT !.pc = "fetch", !.result = "miss"])
  /\ UNCHANGED <<core_vars, post_vars, now, config, last_progress_time, hook, sink, ladder>>

\* web_app.py:684-851: the metadata is fetched; the handler answers with an error
\* when the fetch fails or times out
fetch_info(c) ==
  /\ handler[c].pc = "fetch"
  /\ \/ SetHandler(c, [handler[c] EXCEPT !.pc = "insert", !.info = InfoOf(handler[c].url)])
     \/ SetHandler(c, [handler[c] EXCEPT !.pc = "idle", !.result = "error"])
  /\ UNCHANGED <<core_vars, post_vars, now, config, video_info_cache, last_progress_time, hook, sink,
                 ladder>>

\* web_app.py:236-240: the entry is stored, the length compared with the limit and
\* the items sorted
cache_insert(c) ==
  /\ handler[c].pc = "insert"
  /\ LET h == handler[c]
         cache == CacheSet(video_info_cache, h.url, h.info, now)
     IN /\ video_info_cache' = cache
        /\ IF Len(cache) > CacheLimit
           THEN SetHandler(c, [h EXCEPT !.pc = "evict", !.sorted_items = Oldest(cache),
                                        !.i = 1])
           ELSE SetHandler(c, [h EXCEPT !.pc = "idle", !.result = "cached"])
  /\ UNCHANGED <<core_vars, post_vars, now, config, last_progress_time, hook, sink, ladder>>

\* web_app.py:241-242: one pass of the loop that deletes the oldest entries
cache_evict(c) ==
  /\ handler[c].pc = "evict"
  /\ LET h == handler[c]
         old_url == h.sorted_items[h.i].url
     IN IF old_url \notin CacheKeys(video_info_cache)
        THEN /\ SetHandler(c, [h EXCEPT !.pc = "idle", !.result = "KeyError",
                                        !.sorted_items = <<>>, !.i = 0])
             /\ UNCHANGED video_info_cache
        ELSE /\ video_info_cache' = CacheDel(video_info_cache, old_url)
             /\ IF h.i < Len(h.sorted_items)
                THEN SetHandler(c, [h EXCEPT !.i = h.i + 1])
                ELSE SetHandler(c, [h EXCEPT !.pc = "idle", !.result = "cached",
                                             !.sorted_items = <<>>, !.i = 0])
  /\ UNCHANGED <<core_vars, post_vars, now, config, last_progress_time, hook, sink, ladder>>

\* Time passes between two steps of the request handlers
cache_tick ==
  /\ now + TimeStep <= MaxTime
  /\ now' = now + TimeStep
  /\ UNCHANGED <<core_vars, post_vars, config, video_info_cache, handler, last_progress_time, hook,
                 sink, ladder>>

\* A server that has answered n URLs already, under either setting of MAX_CACHE_SIZE
InitCache ==
  /\ InitCore /\ ~merger.available /\ ~merger.ffmpeg_available
  /\ \E n \in {0, CacheLimit - 1, CacheLimit} :
       /\ video_info_cache = Answered(n)
       /\ now = StartTime + n
  /\ config \in [MAX_CACHE_SIZE : {DefaultMaxCacheSize, SmallMaxCacheSize},
                 VIDEO_INFO_CACHE_TTL : {DefaultCacheTtl}]
  /\ handler = [c \in Handlers |-> IdleHandler]
  /\ last_progress_time = 0
  /\ hook = [s \in HookThreads |-> IdleHook]
  /\ sink = <<>>
  /\ ladder = NoLadder
  /\ trim = NoTrim
  /\ ssl_retries = [t \in Threads |-> 0]
  /\ InitMore

CacheStep(c, cap) ==
  \/ \E url \in AskedUrls : lookup_begin(c, url, cap)
  \/ lookup_read(c)
  \/ lookup_del(c)
  \/ fetch_info(c)
  \/ cache_insert(c)
  \/ cache_evict(c)

\* One request at a time
NextCache ==
  \/ CacheStep(1, MaxRequests)
  \/ cache_tick

SpecCache == InitCache /\ [][NextCache]_vars

\* Requests served by concurrent threads (app.run(threaded=True), web_app.py:1461-1480)
InitCacheRace ==
  /\ InitCache
  /\ Len(video_info_cache) = CacheLimit
  /\ config.MAX_CACHE_SIZE = DefaultMaxCacheSize

NextCacheRace ==
  \/ \E c \in Handlers : CacheStep(c, MaxRaceRequests)
  \/ cache_tick

SpecCacheRace == InitCacheRace /\ [][NextCacheRace]_vars

\* ---- the progress throttle (youtube_downloader.py:459-469) -----------------
\* The events yt-dlp reports to a progress hook
HookEvents ==
  {Event("downloading", NoFile, FALSE), Event("finished", FileTempVideo, FALSE),
   Event("error", NoFile, FALSE)}
\* 463
is_finished(d) == d.status \in {"finished", "done", "error"}

SetHook(s, h) == hook' = [hook EXCEPT ![s] = h]

\* web_app.py:267 / youtube_downloader.py:303-305
set_progress_hook ==
  /\ ~downloader.progress_hook_callback
  /\ downloader' = [downloader EXCEPT !.progress_hook_callback = TRUE]
  /\ UNCHANGED <<merger, active_downloads, completed_downloads, req, pc, retry, events,
                 prev_insecure, selected_audio_lang, quality_options, attempt, success,
                 video_info, info_attempt, stream_file, temp_dir, obs, service_vars>>

\* The same without the exemption of finished events at line 465
hook_call_throttling_all(s, d) ==
  /\ downloader.progress_hook_callback
  /\ hook[s].pc = "idle"
  /\ hook[s].calls < MaxHookCalls
  /\ LET current_time == now
         h == [hook[s] EXCEPT !.d = d, !.current_time = current_time, !.calls = @ + 1]
     IN IF (current_time - last_progress_time) >= progress_throttle_interval
        THEN SetHook(s, [h EXCEPT !.pc = "forward"])
        ELSE SetHook(s, h)
  /\ UNCHANGED <<core_vars, post_vars, now, config, video_info_cache, handler, last_progress_time,
                 sink, ladder>>

\* 1575 / 1621 and 459-465: yt-dlp calls the registered hook of the stream thread s
\* with the event d; the hook reads the clock and tests the throttle
hook_call(s, d) ==
  /\ downloader.progress_hook_callback
  /\ hook[s].pc = "idle"
  /\ hook[s].calls < MaxHookCalls
  /\ LET current_time == now
         h == [hook[s] EXCEPT !.d = d, !.current_time = current_time, !.calls = @ + 1]
     IN IF is_finished(d) \/ (current_time - last_progress_time) >= progress_throttle_interval
        THEN SetHook(s, [h EXCEPT !.pc = "forward"])
        ELSE SetHook(s, h)
  /\ UNCHANGED <<core_vars, post_vars, now, config, video_info_cache, handler, last_progress_time,
                 sink, ladder>>

\* 466-467: the time of the event is stored and the callback called
hook_forward(s) ==
  /\ hook[s].pc = "forward"
  /\ last_progress_time' = hook[s].current_time
  /\ sink' = Append(sink, [d |-> hook[s].d, time |-> hook[s].current_time])
  /\ SetHook(s, [hook[s] EXCEPT !.pc = "idle"])
  /\ UNCHANGED <<core_vars, post_vars, now, config, video_info_cache, handler, ladder>>

\* A tenth of a second passes
hook_tick ==
  /\ now < MaxHookTime
  /\ now' = now + 1
  /\ UNCHANGED <<core_vars, post_vars, config, video_info_cache, handler, last_progress_time, hook,
                 sink, ladder>>

\* The two stream threads of one dual-stream download (1650-1654) report to the hook
NextThrottle ==
  \/ set_progress_hook
  \/ \E s \in HookThreads :
       \/ \E d \in HookEvents : hook_call(s, d)
       \/ hook_forward(s)
  \/ hook_tick

InitThrottle == Init /\ merger.ffmpeg_available /\ merger.available

SpecThrottle == InitThrottle /\ [][NextThrottle]_vars

\* ---- selectors --------------------------------------------------------------
\* The selector strings of youtube_downloader.py:1702-1924 and 372 as yt-dlp reads them:
\* alternatives separated by "/", the streams of an alternative joined by "+", each
\* stream a name followed by bracketed filters; `parts` is what str.split('+') returns
selector_syntax ==
  ("best[ext=mp4]" :>
       [parts |-> <<"best[ext=mp4]">>,
        alternatives |-> <<<<[name |-> "best", filters |-> <<"ext=mp4">>]>>>>])
  @@ ("bestvideo[ext=mp4]+bestaudio[ext=m4a]/best" :>
       [parts |-> <<"bestvideo[ext=mp4]", "bestaudio[ext=m4a]/best">>,
        alternatives |-> <<<<[name |-> "bestvideo", filters |-> <<"ext=mp4">>], [name |-> "bestaudio", filters |-> <<"ext=m4a">>]>>, <<[name |-> "best", filters |-> <<>>]>>>>])
  @@ ("best[height<=1080]" :>
       [parts |-> <<"best[height<=1080]">>,
        alternatives |-> <<<<[name |-> "best", filters |-> <<"height<=1080">>]>>>>])
  @@ ("best[height<=720]" :>
       [parts |-> <<"best[height<=720]">>,
        alternatives |-> <<<<[name |-> "best", filters |-> <<"height<=720">>]>>>>])
  @@ ("best" :>
       [parts |-> <<"best">>,
        alternatives |-> <<<<[name |-> "best", filters |-> <<>>]>>>>])
  @@ ("best[height<=2160][ext=mp4]" :>
       [parts |-> <<"best[height<=2160][ext=mp4]">>,
        alternatives |-> <<<<[name |-> "best", filters |-> <<"height<=2160", "ext=mp4">>]>>>>])
  @@ ("best[height<=1440][ext=mp4]" :>
       [parts |-> <<"best[height<=1440][ext=mp4]">>,
        alternatives |-> <<<<[name |-> "best", filters |-> <<"height<=1440", "ext=mp4">>]>>>>])
  @@ ("bestvideo[height<=2160][ext=mp4]+bestaudio[ext=m4a]/best[height<=2160]" :>
       [parts |-> <<"bestvideo[height<=2160][ext=mp4]", "bestaudio[ext=m4a]/best[height<=2160]">>,
        alternatives |-> <<<<[name |-> "bestvideo", filters |-> <<"height<=2160", "ext=mp4">>], [name |-> "bestaudio", filters |-> <<"ext=m4a">>]>>, <<[name |-> "best", filters |-> <<"height<=2160">>]>>>>])
  @@ ("bestvideo[height<=1440][ext=mp4]+bestaudio[ext=m4a]/best[height<=1440]" :>
       [parts |-> <<"bestvideo[height<=1440][ext=mp4]", "bestaudio[ext=m4a]/best[height<=1440]">>,
        alternatives |-> <<<<[name |-> "bestvideo", filters |-> <<"height<=1440", "ext=mp4">>], [name |-> "bestaudio", filters |-> <<"ext=m4a">>]>>, <<[name |-> "best", filters |-> <<"height<=1440">>]>>>>])
  @@ ("best[height<=1080][ext=mp4]" :>
       [parts |-> <<"best[height<=1080][ext=mp4]">>,
        alternatives |-> <<<<[name |-> "best", filters |-> <<"height<=1080", "ext=mp4">>]>>>>])
  @@ ("bestvideo[height<=1080][ext=mp4]+bestaudio[ext=m4a]/best[height<=1080]" :>
       [parts |-> <<"bestvideo[height<=1080][ext=mp4]", "bestaudio[ext=m4a]/best[height<=1080]">>,
        alternatives |-> <<<<[name |-> "bestvideo", filters |-> <<"height<=1080", "ext=mp4">>], [name |-> "bestaudio", filters |-> <<"ext=m4a">>]>>, <<[name |-> "best", filters |-> <<"height<=1080">>]>>>>])
  @@ ("best[height<=720][ext=mp4]" :>
       [parts |-> <<"best[height<=720][ext=mp4]">>,
        alternatives |-> <<<<[name |-> "best", filters |-> <<"height<=720", "ext=mp4">>]>>>>])
  @@ ("bestvideo[height<=720][ext=mp4]+bestaudio[ext=m4a]/best[height<=720]" :>
       [parts |-> <<"bestvideo[height<=720][ext=mp4]", "bestaudio[ext=m4a]/best[height<=720]">>,
        alternatives |-> <<<<[name |-> "bestvideo", filters |-> <<"height<=720", "ext=mp4">>], [name |-> "bestaudio", filters |-> <<"ext=m4a">>]>>, <<[name |-> "best", filters |-> <<"height<=720">>]>>>>])
  @@ ("best[height<=480][ext=mp4]" :>
       [parts |-> <<"best[height<=480][ext=mp4]">>,
        alternatives |-> <<<<[name |-> "best", filters |-> <<"height<=480", "ext=mp4">>]>>>>])
  @@ ("bestvideo[height<=480][ext=mp4]+bestaudio[ext=m4a]/best[height<=480]" :>
       [parts |-> <<"bestvideo[height<=480][ext=mp4]", "bestaudio[ext=m4a]/best[height<=480]">>,
        alternatives |-> <<<<[name |-> "bestvideo", filters |-> <<"height<=480", "ext=mp4">>], [name |-> "bestaudio", filters |-> <<"ext=m4a">>]>>, <<[name |-> "best", filters |-> <<"height<=480">>]>>>>])
  @@ ("best[height<=360][ext=mp4]" :>
       [parts |-> <<"best[height<=360][ext=mp4]">>,
        alternatives |-> <<<<[name |-> "best", filters |-> <<"height<=360", "ext=mp4">>]>>>>])
  @@ ("bestvideo[height<=360][ext=mp4]+bestaudio[ext=m4a]/best[height<=360]" :>
       [parts |-> <<"bestvideo[height<=360][ext=mp4]", "bestaudio[ext=m4a]/best[height<=360]">>,
        alternatives |-> <<<<[name |-> "bestvideo", filters |-> <<"height<=360", "ext=mp4">>], [name |-> "bestaudio", filters |-> <<"ext=m4a">>]>>, <<[name |-> "best", filters |-> <<"height<=360">>]>>>>])
  @@ ("best[height<=240][ext=mp4]" :>
       [parts |-> <<"best[height<=240][ext=mp4]">>,
        alternatives |-> <<<<[name |-> "best", filters |-> <<"height<=240", "ext=mp4">>]>>>>])
  @@ ("bestvideo[height<=240][ext=mp4]+bestaudio[ext=m4a]/best[height<=240]" :>
       [parts |-> <<"bestvideo[height<=240][ext=mp4]", "bestaudio[ext=m4a]/best[height<=240]">>,
        alternatives |-> <<<<[name |-> "bestvideo", filters |-> <<"height<=240", "ext=mp4">>], [name |-> "bestaudio", filters |-> <<"ext=m4a">>]>>, <<[name |-> "best", filters |-> <<"height<=240">>]>>>>])
  @@ ("bestvideo[height>=1080]+bestaudio/best[height>=1080]" :>
       [parts |-> <<"bestvideo[height>=1080]", "bestaudio/best[height>=1080]">>,
        alternatives |-> <<<<[name |-> "bestvideo", filters |-> <<"height>=1080">>], [name |-> "bestaudio", filters |-> <<>>]>>, <<[name |-> "best", filters |-> <<"height>=1080">>]>>>>])
  @@ ("bestvideo[height>=720]+bestaudio/best[height>=720]" :>
       [parts |-> <<"bestvideo[height>=720]", "bestaudio/best[height>=720]">>,
        alternatives |-> <<<<[name |-> "bestvideo", filters |-> <<"height>=720">>], [name |-> "bestaudio", filters |-> <<>>]>>, <<[name |-> "best", filters |-> <<"height>=720">>]>>>>])
  @@ ("bestvideo+bestaudio/best[height>=480]" :>
       [parts |-> <<"bestvideo", "bestaudio/best[height>=480]">>,
        alternatives |-> <<<<[name |-> "bestvideo", filters |-> <<>>], [name |-> "bestaudio", filters |-> <<>>]>>, <<[name |-> "best", filters |-> <<"height>=480">>]>>>>])
  @@ ("best[height>=1080]" :>
       [parts |-> <<"best[height>=1080]">>,
        alternatives |-> <<<<[name |-> "best", filters |-> <<"height>=1080">>]>>>>])
  @@ ("best[height>=720]" :>
       [parts |-> <<"best[height>=720]">>,
        alternatives |-> <<<<[name |-> "best", filters |-> <<"height>=720">>]>>>>])
  @@ ("best[height>=480]" :>
       [parts |-> <<"best[height>=480]">>,
        alternatives |-> <<<<[name |-> "best", filters |-> <<"height>=480">>]>>>>])
  @@ ("best[height<=2160]" :>
       [parts |-> <<"best[height<=2160]">>,
        alternatives |-> <<<<[name |-> "best", filters |-> <<"height<=2160">>]>>>>])
  @@ ("bestvideo[ext=mp4]+bestaudio[ext=m4a]/best[ext=mp4]" :>
       [parts |-> <<"bestvideo[ext=mp4]", "bestaudio[ext=m4a]/best[ext=mp4]">>,
        alternatives |-> <<<<[name |-> "bestvideo", filters |-> <<"ext=mp4">>], [name |-> "bestaudio", filters |-> <<"ext=m4a">>]>>, <<[name |-> "best", filters |-> <<"ext=mp4">>]>>>>])
  @@ ("bestvideo+bestaudio/best" :>
       [parts |-> <<"bestvideo", "bestaudio/best">>,
        alternatives |-> <<<<[name |-> "bestvideo", filters |-> <<>>], [name |-> "bestaudio", filters |-> <<>>]>>, <<[name |-> "best", filters |-> <<>>]>>>>])
  @@ ("bestvideo[height>=2160]+bestaudio/best[height>=2160]" :>
       [parts |-> <<"bestvideo[height>=2160]", "bestaudio/best[height>=2160]">>,
        alternatives |-> <<<<[name |-> "bestvideo", filters |-> <<"height>=2160">>], [name |-> "bestaudio", filters |-> <<>>]>>, <<[name |-> "best", filters |-> <<"height>=2160">>]>>>>])
  @@ ("bestvideo[height>=1440]+bestaudio/best[height>=1440]" :>
       [parts |-> <<"bestvideo[height>=1440]", "bestaudio/best[height>=1440]">>,
        alternatives |-> <<<<[name |-> "bestvideo", filters |-> <<"height>=1440">>], [name |-> "bestaudio", filters |-> <<>>]>>, <<[name |-> "best", filters |-> <<"height>=1440">>]>>>>])
  @@ ("best[height>=2160]" :>
       [parts |-> <<"best[height>=2160]">>,
        alternatives |-> <<<<[name |-> "best", filters |-> <<"height>=2160">>]>>>>])
  @@ ("best[height>=1440]" :>
       [parts |-> <<"best[height>=1440]">>,
        alternatives |-> <<<<[name |-> "best", filters |-> <<"height>=1440">>]>>>>])
  @@ ("best[height<=1440]" :>
       [parts |-> <<"best[height<=1440]">>,
        alternatives |-> <<<<[name |-> "best", filters |-> <<"height<=1440">>]>>>>])
  @@ ("bestvideo[height>=2160]+bestaudio/best[height<=2160]" :>
       [parts |-> <<"bestvideo[height>=2160]", "bestaudio/best[height<=2160]">>,
        alternatives |-> <<<<[name |-> "bestvideo", filters |-> <<"height>=2160">>], [name |-> "bestaudio", filters |-> <<>>]>>, <<[name |-> "best", filters |-> <<"height<=2160">>]>>>>])
  @@ ("bestvideo[height<=1440][height>=1080]+bestaudio/best[height<=1440][height>=1080]" :>
       [parts |-> <<"bestvideo[height<=1440][height>=1080]", "bestaudio/best[height<=1440][height>=1080]">>,
        alternatives |-> <<<<[name |-> "bestvideo", filters |-> <<"height<=1440", "height>=1080">>], [name |-> "bestaudio", filters |-> <<>>]>>, <<[name |-> "best", filters |-> <<"height<=1440", "height>=1080">>]>>>>])
  @@ ("bestvideo[height<=1440]+bestaudio/best[height<=1440]" :>
       [parts |-> <<"bestvideo[height<=1440]", "bestaudio/best[height<=1440]">>,
        alternatives |-> <<<<[name |-> "bestvideo", filters |-> <<"height<=1440">>], [name |-> "bestaudio", filters |-> <<>>]>>, <<[name |-> "best", filters |-> <<"height<=1440">>]>>>>])
  @@ ("best[height<=1440][height>=1080]" :>
       [parts |-> <<"best[height<=1440][height>=1080]">>,
        alternatives |-> <<<<[name |-> "best", filters |-> <<"height<=1440", "height>=1080">>]>>>>])
  @@ ("bestvideo[height<=1080][height>=720]+bestaudio/best[height<=1080][height>=720]" :>
       [parts |-> <<"bestvideo[height<=1080][height>=720]", "bestaudio/best[height<=1080][height>=720]">>,
        alternatives |-> <<<<[name |-> "bestvideo", filters |-> <<"height<=1080", "height>=720">>], [name |-> "bestaudio", filters |-> <<>>]>>, <<[name |-> "best", filters |-> <<"height<=1080", "height>=720">>]>>>>])
  @@ ("bestvideo[height<=1080]+bestaudio/best[height<=1080]" :>
       [parts |-> <<"bestvideo[height<=1080]", "bestaudio/best[height<=1080]">>,
        alternatives |-> <<<<[name |-> "bestvideo", filters |-> <<"height<=1080">>], [name |-> "bestaudio", filters |-> <<>>]>>, <<[name |-> "best", filters |-> <<"height<=1080">>]>>>>])
  @@ ("best[height<=1080][height>=720]" :>
       [parts |-> <<"best[height<=1080][height>=720]">>,
        alternatives |-> <<<<[name |-> "best", filters |-> <<"height<=1080", "height>=720">>]>>>>])
  @@ ("bestvideo[height<=720][height>=480]+bestaudio/best[height<=720][height>=480]" :>
       [parts |-> <<"bestvideo[height<=720][height>=480]", "bestaudio/best[height<=720][height>=480]">>,
        alternatives |-> <<<<[name |-> "bestvideo", filters |-> <<"height<=720", "height>=480">>], [name |-> "bestaudio", filters |-> <<>>]>>, <<[name |-> "best", filters |-> <<"height<=720", "height>=480">>]>>>>])
  @@ ("bestvideo[height<=720]+bestaudio/best[height<=720]" :>
       [parts |-> <<"bestvideo[height<=720]", "bestaudio/best[height<=720]">>,
        alternatives |-> <<<<[name |-> "bestvideo", filters |-> <<"height<=720">>], [name |-> "bestaudio", filters |-> <<>>]>>, <<[name |-> "best", filters |-> <<"height<=720">>]>>>>])
  @@ ("best[height<=720][height>=480]" :>
       [parts |-> <<"best[height<=720][height>=480]">>,
        alternatives |-> <<<<[name |-> "best", filters |-> <<"height<=720", "height>=480">>]>>>>])
  @@ ("bestvideo[height>=480]+bestaudio/best[height>=480]" :>
       [parts |-> <<"bestvideo[height>=480]", "bestaudio/best[height>=480]">>,
        alternatives |-> <<<<[name |-> "bestvideo", filters |-> <<"height>=480">>], [name |-> "bestaudio", filters |-> <<>>]>>, <<[name |-> "best", filters |-> <<"height>=480">>]>>>>])
  @@ ("bestvideo[height<=480][height>=360]+bestaudio/best[height<=480][height>=360]" :>
       [parts |-> <<"bestvideo[height<=480][height>=360]", "bestaudio/best[height<=480][height>=360]">>,
        alternatives |-> <<<<[name |-> "bestvideo", filters |-> <<"height<=480", "height>=360">>], [name |-> "bestaudio", filters |-> <<>>]>>, <<[name |-> "best", filters |-> <<"height<=480", "height>=360">>]>>>>])
  @@ ("bestvideo[height<=480]+bestaudio/best[height<=480]" :>
       [parts |-> <<"bestvideo[height<=480]", "bestaudio/best[height<=480]">>,
        alternatives |-> <<<<[name |-> "bestvideo", filters |-> <<"height<=480">>], [name |-> "bestaudio", filters |-> <<>>]>>, <<[name |-> "best", filters |-> <<"height<=480">>]>>>>])
  @@ ("best[height<=480][height>=360]" :>
       [parts |-> <<"best[height<=480][height>=360]">>,
        alternatives |-> <<<<[name |-> "best", filters |-> <<"height<=480", "height>=360">>]>>>>])
  @@ ("best[height<=480]" :>
       [parts |-> <<"best[height<=480]">>,
        alternatives |-> <<<<[name |-> "best", filters |-> <<"height<=480">>]>>>>])
  @@ ("best[height>=360]" :>
       [parts |-> <<"best[height>=360]">>,
        alternatives |-> <<<<[name |-> "best", filters |-> <<"height>=360">>]>>>>])
  @@ ("bestvideo[height>=360]+bestaudio/best[height>=360]" :>
       [parts |-> <<"bestvideo[height>=360]", "bestaudio/best[height>=360]">>,
        alternatives |-> <<<<[name |-> "bestvideo", filters |-> <<"height>=360">>], [name |-> "bestaudio", filters |-> <<>>]>>, <<[name |-> "best", filters |-> <<"height>=360">>]>>>>])
  @@ ("bestvideo[height<=360][height>=240]+bestaudio/best[height<=360][height>=240]" :>
       [parts |-> <<"bestvideo[height<=360][height>=240]", "bestaudio/best[height<=360][height>=240]">>,
        alternatives |-> <<<<[name |-> "bestvideo", filters |-> <<"height<=360", "height>=240">>], [name |-> "bestaudio", filters |-> <<>>]>>, <<[name |-> "best", filters |-> <<"height<=360", "height>=240">>]>>>>])
  @@ ("bestvideo[height<=360]+bestaudio/best[height<=360]" :>
       [parts |-> <<"bestvideo[height<=360]", "bestaudio/best[height<=360]">>,
        alternatives |-> <<<<[name |-> "bestvideo", filters |-> <<"height<=360">>], [name |-> "bestaudio", filters |-> <<>>]>>, <<[name |-> "best", filters |-> <<"height<=360">>]>>>>])
  @@ ("best[height<=360][height>=240]" :>
       [parts |-> <<"best[height<=360][height>=240]">>,
        alternatives |-> <<<<[name |-> "best", filters |-> <<"height<=360", "height>=240">>]>>>>])
  @@ ("best[height<=360]" :>
       [parts |-> <<"best[height<=360]">>,
        alternatives |-> <<<<[name |-> "best", filters |-> <<"height<=360">>]>>>>])
  @@ ("best[height>=240]" :>
       [parts |-> <<"best[height>=240]">>,
        alternatives |-> <<<<[name |-> "best", filters |-> <<"height>=240">>]>>>>])
  @@ ("bestvideo[height>=240]+bestaudio/best[height>=240]" :>
       [parts |-> <<"bestvideo[height>=240]", "bestaudio/best[height>=240]">>,
        alternatives |-> <<<<[name |-> "bestvideo", filters |-> <<"height>=240">>], [name |-> "bestaudio", filters |-> <<>>]>>, <<[name |-> "best", filters |-> <<"height>=240">>]>>>>])
  @@ ("bestvideo[height<=240][height>=144]+bestaudio/best[height<=240][height>=144]" :>
       [parts |-> <<"bestvideo[height<=240][height>=144]", "bestaudio/best[height<=240][height>=144]">>,
        alternatives |-> <<<<[name |-> "bestvideo", filters |-> <<"height<=240", "height>=144">>], [name |-> "bestaudio", filters |-> <<>>]>>, <<[name |-> "best", filters |-> <<"height<=240", "height>=144">>]>>>>])
  @@ ("bestvideo[height<=240]+bestaudio/best[height<=240]" :>
       [parts |-> <<"bestvideo[height<=240]", "bestaudio/best[height<=240]">>,
        alternatives |-> <<<<[name |-> "bestvideo", filters |-> <<"height<=240">>], [name |-> "bestaudio", filters |-> <<>>]>>, <<[name |-> "best", filters |-> <<"height<=240">>]>>>>])
  @@ ("best[height<=240][height>=144]" :>
       [parts |-> <<"best[height<=240][height>=144]">>,
        alternatives |-> <<<<[name |-> "best", filters |-> <<"height<=240", "height>=144">>]>>>>])
  @@ ("best[height<=240]" :>
       [parts |-> <<"best[height<=240]">>,
        alternatives |-> <<<<[name |-> "best", filters |-> <<"height<=240">>]>>>>])
  @@ ("best[height>=144]" :>
       [parts |-> <<"best[height>=144]">>,
        alternatives |-> <<<<[name |-> "best", filters |-> <<"height>=144">>]>>>>])
  @@ ("bestvideo[height>=144]+bestaudio/best[height>=144]" :>
       [parts |-> <<"bestvideo[height>=144]", "bestaudio/best[height>=144]">>,
        alternatives |-> <<<<[name |-> "bestvideo", filters |-> <<"height>=144">>], [name |-> "bestaudio", filters |-> <<>>]>>, <<[name |-> "best", filters |-> <<"height>=144">>]>>>>])
  @@ ("bestvideo[height<=144]+bestaudio/best[height<=144]" :>
       [parts |-> <<"bestvideo[height<=144]", "bestaudio/best[height<=144]">>,
        alternatives |-> <<<<[name |-> "bestvideo", filters |-> <<"height<=144">>], [name |-> "bestaudio", filters |-> <<>>]>>, <<[name |-> "best", filters |-> <<"height<=144">>]>>>>])
  @@ ("best[height<=144]" :>
       [parts |-> <<"best[height<=144]">>,
        alternatives |-> <<<<[name |-> "best", filters |-> <<"height<=144">>]>>>>])
  @@ ("best[vcodec!*=none][acodec!*=none]" :>
       [parts |-> <<"best[vcodec!*=none][acodec!*=none]">>,
        alternatives |-> <<<<[name |-> "best", filters |-> <<"vcodec!*=none", "acodec!*=none">>]>>>>])
  @@ ("best[height>=1080][vcodec!*=none][acodec!*=none]" :>
       [parts |-> <<"best[height>=1080][vcodec!*=none][acodec!*=none]">>,
        alternatives |-> <<<<[name |-> "best", filters |-> <<"height>=1080", "vcodec!*=none", "acodec!*=none">>]>>>>])
  @@ ("best[height>=720][vcodec!*=none][acodec!*=none]" :>
       [parts |-> <<"best[height>=720][vcodec!*=none][acodec!*=none]">>,
        alternatives |-> <<<<[name |-> "best", filters |-> <<"height>=720", "vcodec!*=none", "acodec!*=none">>]>>>>])
  @@ ("best[height>=480][vcodec!*=none][acodec!*=none]" :>
       [parts |-> <<"best[height>=480][vcodec!*=none][acodec!*=none]">>,
        alternatives |-> <<<<[name |-> "best", filters |-> <<"height>=480", "vcodec!*=none", "acodec!*=none">>]>>>>])
  @@ ("best[height>=2160][vcodec!*=none][acodec!*=none]" :>
       [parts |-> <<"best[height>=2160][vcodec!*=none][acodec!*=none]">>,
        alternatives |-> <<<<[name |-> "best", filters |-> <<"height>=2160", "vcodec!*=none", "acodec!*=none">>]>>>>])
  @@ ("best[height>=1440][vcodec!*=none][acodec!*=none]" :>
       [parts |-> <<"best[height>=1440][vcodec!*=none][acodec!*=none]">>,
        alternatives |-> <<<<[name |-> "best", filters |-> <<"height>=1440", "vcodec!*=none", "acodec!*=none">>]>>>>])
  @@ ("best[height>=360][vcodec!*=none][acodec!*=none]" :>
       [parts |-> <<"best[height>=360][vcodec!*=none][acodec!*=none]">>,
        alternatives |-> <<<<[name |-> "best", filters |-> <<"height>=360", "vcodec!*=none", "acodec!*=none">>]>>>>])
  @@ ("best[height>=240][vcodec!*=none][acodec!*=none]" :>
       [parts |-> <<"best[height>=240][vcodec!*=none][acodec!*=none]">>,
        alternatives |-> <<<<[name |-> "best", filters |-> <<"height>=240", "vcodec!*=none", "acodec!*=none">>]>>>>])
  @@ ("best[height=480][vcodec!*=none][acodec!*=none]" :>
       [parts |-> <<"best[height=480][vcodec!*=none][acodec!*=none]">>,
        alternatives |-> <<<<[name |-> "best", filters |-> <<"height=480", "vcodec!*=none", "acodec!*=none">>]>>>>])
  @@ ("best[height>=480][height<720][vcodec!*=none][acodec!*=none]" :>
       [parts |-> <<"best[height>=480][height<720][vcodec!*=none][acodec!*=none]">>,
        alternatives |-> <<<<[name |-> "best", filters |-> <<"height>=480", "height<720", "vcodec!*=none", "acodec!*=none">>]>>>>])
  @@ ("best[height<=480][height>=360][vcodec!*=none][acodec!*=none]" :>
       [parts |-> <<"best[height<=480][height>=360][vcodec!*=none][acodec!*=none]">>,
        alternatives |-> <<<<[name |-> "best", filters |-> <<"height<=480", "height>=360", "vcodec!*=none", "acodec!*=none">>]>>>>])
  @@ ("best[height<=480][vcodec!*=none][acodec!*=none]" :>
       [parts |-> <<"best[height<=480][vcodec!*=none][acodec!*=none]">>,
        alternatives |-> <<<<[name |-> "best", filters |-> <<"height<=480", "vcodec!*=none", "acodec!*=none">>]>>>>])
  @@ ("best[height=360][vcodec!*=none][acodec!*=none]" :>
       [parts |-> <<"best[height=360][vcodec!*=none][acodec!*=none]">>,
        alternatives |-> <<<<[name |-> "best", filters |-> <<"height=360", "vcodec!*=none", "acodec!*=none">>]>>>>])
  @@ ("best[height>=360][height<480][vcodec!*=none][acodec!*=none]" :>
       [parts |-> <<"best[height>=360][height<480][vcodec!*=none][acodec!*=none]">>,
        alternatives |-> <<<<[name |-> "best", filters |-> <<"height>=360", "height<480", "vcodec!*=none", "acodec!*=none">>]>>>>])
  @@ ("best[height<=360][height>=240][vcodec!*=none][acodec!*=none]" :>
       [parts |-> <<"best[height<=360][height>=240][vcodec!*=none][acodec!*=none]">>,
        alternatives |-> <<<<[name |-> "best", filters |-> <<"height<=360", "height>=240", "vcodec!*=none", "acodec!*=none">>]>>>>])
  @@ ("best[height<=360][vcodec!*=none][acodec!*=none]" :>
       [parts |-> <<"best[height<=360][vcodec!*=none][acodec!*=none]">>,
        alternatives |-> <<<<[name |-> "best", filters |-> <<"height<=360", "vcodec!*=none", "acodec!*=none">>]>>>>])
  @@ ("best[height=240][vcodec!*=none][acodec!*=none]" :>
       [parts |-> <<"best[height=240][vcodec!*=none][acodec!*=none]">>,
        alternatives |-> <<<<[name |-> "best", filters |-> <<"height=240", "vcodec!*=none", "acodec!*=none">>]>>>>])
  @@ ("best[height>=240][height<360][vcodec!*=none][acodec!*=none]" :>
       [parts |-> <<"best[height>=240][height<360][vcodec!*=none][acodec!*=none]">>,
        alternatives |-> <<<<[name |-> "best", filters |-> <<"height>=240", "height<360", "vcodec!*=none", "acodec!*=none">>]>>>>])
  @@ ("best[height<=240][height>=144][vcodec!*=none][acodec!*=none]" :>
       [parts |-> <<"best[height<=240][height>=144][vcodec!*=none][acodec!*=none]">>,
        alternatives |-> <<<<[name |-> "best", filters |-> <<"height<=240", "height>=144", "vcodec!*=none", "acodec!*=none">>]>>>>])
  @@ ("best[height<=240][vcodec!*=none][acodec!*=none]" :>
       [parts |-> <<"best[height<=240][vcodec!*=none][acodec!*=none]">>,
        alternatives |-> <<<<[name |-> "best", filters |-> <<"height<=240", "vcodec!*=none", "acodec!*=none">>]>>>>])
  @@ ("worst[height=240][vcodec!*=none][acodec!*=none]" :>
       [parts |-> <<"worst[height=240][vcodec!*=none][acodec!*=none]">>,
        alternatives |-> <<<<[name |-> "worst", filters |-> <<"height=240", "vcodec!*=none", "acodec!*=none">>]>>>>])
  @@ ("worst[ext=mp4]" :>
       [parts |-> <<"worst[ext=mp4]">>,
        alternatives |-> <<<<[name |-> "worst", filters |-> <<"ext=mp4">>]>>>>])
  @@ ("worst" :>
       [parts |-> <<"worst">>,
        alternatives |-> <<<<[name |-> "worst", filters |-> <<>>]>>>>])
  @@ ("best[height=144][vcodec!*=none][acodec!*=none]" :>
       [parts |-> <<"best[height=144][vcodec!*=none][acodec!*=none]">>,
        alternatives |-> <<<<[name |-> "best", filters |-> <<"height=144", "vcodec!*=none", "acodec!*=none">>]>>>>])
  @@ ("best[height>=144][height<240][vcodec!*=none][acodec!*=none]" :>
       [parts |-> <<"best[height>=144][height<240][vcodec!*=none][acodec!*=none]">>,
        alternatives |-> <<<<[name |-> "best", filters |-> <<"height>=144", "height<240", "vcodec!*=none", "acodec!*=none">>]>>>>])
  @@ ("best[height<=144][vcodec!*=none][acodec!*=none]" :>
       [parts |-> <<"best[height<=144][vcodec!*=none][acodec!*=none]">>,
        alternatives |-> <<<<[name |-> "best", filters |-> <<"height<=144", "vcodec!*=none", "acodec!*=none">>]>>>>])
  @@ ("worst[height=144][vcodec!*=none][acodec!*=none]" :>
       [parts |-> <<"worst[height=144][vcodec!*=none][acodec!*=none]">>,
        alternatives |-> <<<<[name |-> "worst", filters |-> <<"height=144", "vcodec!*=none", "acodec!*=none">>]>>>>])
  @@ ("best[ext=mp4]/best" :>
       [parts |-> <<"best[ext=mp4]/best">>,
        alternatives |-> <<<<[name |-> "best", filters |-> <<"ext=mp4">>]>>, <<[name |-> "best", filters |-> <<>>]>>>>])

\* youtube_downloader.py:1078-1095: the selector of a ladder entry with the audio
\* language woven in; the f-string is the sequence of its pieces
weave_audio_language(fmt, lang) ==
  IF lang = None THEN <<fmt>>
  ELSE LET parts == selector_syntax[fmt].parts IN
       IF Len(parts) > 1
       THEN IF Len(parts) = 2
            THEN <<parts[1], "+bestaudio[language=", lang, "]/", fmt>>
            ELSE <<fmt>>
       ELSE <<fmt, "[language=", lang, "]/", fmt>>

\* 369-380 (through 1138): what _apply_platform_specific_options leaves in opts['format']
platform_format(format_str, platform) ==
  IF platform = "twitch" THEN <<"best[ext=mp4]/best">> ELSE format_str

\* 1078-1138: opts['format'] as _ydl_download_with_ssl_fallback receives it (1146)
std_format(fmt, lang, platform) ==
  platform_format(weave_audio_language(fmt, lang), platform)

\* opts['format'] of the fetch job j is running in the ladder loop
opts_format(j) ==
  std_format(quality_options[j][attempt[j] + 1], selected_audio_lang[j],
             detect_platform(req[j].url))

\* ---- the ladder loop on its own (youtube_downloader.py:1059-1148) ----------
Tiers == {"best", "4k", "1440p", "1080p", "720p", "480p", "360p", "240p", "144p"}
LadderQualities == Tiers \cup {"720P", "source"}
\* URLs of the other platforms, in mixed case, with a known domain in the query of
\* another site, with two known domains, and with none
MoreUrls ==
  { <<"https://", "youtu.be", "/x">>,
    <<"https://", "www.", "youtube-nocookie.com", "/embed/x">>,
    <<"HTTPS://", "VK.COM", "/video1">>,
    <<"https://", "vkontakte.ru", "/video1">>,
    <<"https://", "zen.yandex", ".ru/media/1">>,
    <<"https://", "Rutube.RU", "/video/1/">>,
    <<"https://", "www.", "instagram.com", "/reel/1/">>,
    <<"https://", "www.", "tiktok.com", "/@u/video/1">>,
    <<"https://", "player.", "vimeo.com", "/video/1">>,
    <<"https://", "vk.com", "/away.php?to=", "youtube.com", "/Watch?V=X">>,
    <<"https://", "example.org", "/?ref=", "tiktok.com">>,
    <<>> }
LadderUrls == {UrlYoutube, UrlDzen, UrlTwitch, UrlOther} \cup MoreUrls

\* 1059-1070: platform, language and ladder for one call of _download_standard_mode
ladder_enter(url, quality, lang) ==
  /\ ladder.pc = "idle"
  /\ ladder' = [pc |-> "loop", url |-> url, quality |-> quality, lang |-> lang,
                options |-> get_quality_fallbacks(quality, detect_platform(url) = "dzen",
                                                  merger.ffmpeg_available),
                attempt |-> 0, format |-> <<>>]
  /\ UNCHANGED <<core_vars, post_vars, now, config, video_info_cache, handler, last_progress_time,
                 hook, sink>>

\* 1072-1146: one pass of the loop builds the options of the entry and calls the backend
ladder_attempt ==
  /\ ladder.pc = "loop"
  /\ ladder.attempt < Len(ladder.options)
  /\ ladder' = [ladder EXCEPT
                  !.pc = "fetch",
                  !.format = std_format(ladder.options[ladder.attempt + 1], ladder.lang,
                                        detect_platform(ladder.url))]
  /\ UNCHANGED <<core_vars, post_vars, now, config, video_info_cache, handler, last_progress_time,
                 hook, sink>>

\* 1147-1216: the fetch of the entry failed and the loop continues
ladder_continue ==
  /\ ladder.pc = "fetch"
  /\ ladder' = [ladder EXCEPT !.pc = "loop", !.attempt = @ + 1, !.format = <<>>]
  /\ UNCHANGED <<core_vars, post_vars, now, config, video_info_cache, handler, last_progress_time,
                 hook, sink>>

\* 1149-1152 and 1218-1228: the fetch succeeded, or the ladder is used up
ladder_return ==
  /\ \/ ladder.pc = "fetch"
     \/ ladder.pc = "loop" /\ ladder.attempt >= Len(ladder.options)
  /\ ladder' = NoLadder
  /\ UNCHANGED <<core_vars, post_vars, now, config, video_info_cache, handler, last_progress_time,
                 hook, sink>>

NextLadder ==
  \/ \E url \in LadderUrls, quality \in LadderQualities, lang \in {None, "en"} :
       ladder_enter(url, quality, lang)
  \/ ladder_attempt
  \/ ladder_continue
  \/ ladder_return

InitLadder == Init /\ merger.available = merger.ffmpeg_available

SpecLadder == InitLadder /\ [][NextLadder]_vars

\* ---- the metadata cache: properties ----------------------------------------
\* The step in which handler c leaves position `at`
Leaves(c, at) == handler[c].pc = at /\ handler'[c] # handler[c]
AgeOf(url) == now - CacheGet(video_info_cache, url).timestamp

\* C11: in every sequence of inserts and lookups, a lookup returns an entry only
\* while the entry's age is below the time to live; a lookup that finds an entry
\* whose age has reached the time to live returns nothing and removes the entry.
C11_ExpiredEntryNeverReturned ==
  [][\A c \in Handlers :
       /\ Leaves(c, "lookup_read") =>
            LET url == handler[c].url IN
            /\ url \in CacheKeys(video_info_cache)
            /\ handler'[c].result = "hit" =>
                 /\ AgeOf(url) < Seconds(cache_ttl)
                 /\ handler'[c].info = CacheGet(video_info_cache, url).info
            /\ AgeOf(url) >= Seconds(cache_ttl) =>
                 /\ handler'[c].pc = "lookup_del"
                 /\ handler'[c].result # "hit"
       /\ Leaves(c, "lookup_del") =>
            /\ handler'[c].result = "miss"
            /\ handler[c].url \in CacheKeys(video_info_cache)
            /\ handler[c].url \notin CacheKeys(video_info_cache')]_vars

\* A lookup has found an entry exactly as old as the time to live and is about to
\* delete it
C11_Witness ==
  /\ handler[1].pc = "lookup_del"
  /\ handler[1].url \in CacheKeys(video_info_cache)
  /\ AgeOf(handler[1].url) = Seconds(cache_ttl)

\* The entries a finished or running eviction of handler c has chosen are the oldest:
\* each is at least as old as every entry that stays, and the new entry stays
OldestFirst(c) ==
  Leaves(c, "insert") /\ handler'[c].pc = "evict" =>
    LET batch == handler'[c].sorted_items
        gone == {batch[i].url : i \in DOMAIN batch}
    IN /\ Len(batch) = EvictBatch
       /\ handler[c].url \notin gone
       /\ \A i \in DOMAIN batch, k \in DOMAIN video_info_cache' :
            video_info_cache'[k].url \notin gone =>
              batch[i].timestamp <= video_info_cache'[k].timestamp
ExactlyTheBatch(c) ==
  Leaves(c, "evict") =>
    CacheKeys(video_info_cache') =
      CacheKeys(video_info_cache) \ {handler[c].sorted_items[handler[c].i].url}
InsertCompletes(c) ==
  handler[c].pc \in {"insert", "evict"} /\ handler'[c].result = "cached"

\* C12: once an insert has completed the cache holds at most config.MAX_CACHE_SIZE
\* entries; the entries an overflowing insert removes are exactly the oldest by
\* timestamp, and the entry just inserted stays.
C12_CacheWithinConfiguredCeiling ==
  [][\A c \in Handlers :
       /\ OldestFirst(c)
       /\ ExactlyTheBatch(c)
       /\ InsertCompletes(c) => Len(video_info_cache') <= config.MAX_CACHE_SIZE]_vars

\* C13: under no interleaving of concurrent lookups and inserts does a lookup or an
\* insert fail.
C13_NoLookupOrInsertFails ==
  \A c \in Handlers : handler[c].result # "KeyError"

\* What does hold of the eviction: the literal limit of web_app.py:238 bounds the cache
EvictionAgainstLiteralLimit ==
  [][\A c \in Handlers :
       /\ OldestFirst(c)
       /\ ExactlyTheBatch(c)
       /\ InsertCompletes(c) => Len(video_info_cache') <= CacheLimit]_vars

\* ---- the progress throttle: properties -------------------------------------
\* The forwarded events that are not terminal, in the order the sink received them
Downloading == SelectSeq(sink, LAMBDA e : ~is_finished(e.d))

\* C14: between any two consecutively forwarded non-terminal events at least one
\* throttle interval elapses, also when the two stream threads report concurrently.
C14_OneEventPerInterval ==
  \A i \in 1..(Len(Downloading) - 1) :
    Downloading[i + 1].time - Downloading[i].time >= progress_throttle_interval

\* The step in which the hook of thread s is called
HookCalled(s) == hook[s].pc = "idle" /\ hook'[s].calls = hook[s].calls + 1

\* C15: every terminal event (finished, error) that reaches the progress hook is
\* forwarded to the sink, however recently another event was forwarded.
C15_TerminalEventsAlwaysForwarded ==
  [][\A s \in HookThreads :
       /\ HookCalled(s) /\ is_finished(hook'[s].d) => hook'[s].pc = "forward"
       /\ hook[s].pc = "forward" /\ hook'[s].pc = "idle" =>
            sink' = Append(sink, [d |-> hook[s].d, time |-> hook[s].current_time])]_vars

\* A terminal event is on its way to the sink less than an interval after the last
\* forwarded event
C15_Witness ==
  \E s \in HookThreads :
    /\ hook[s].pc = "forward"
    /\ is_finished(hook[s].d)
    /\ sink # <<>>
    /\ hook[s].current_time - last_progress_time < progress_throttle_interval

\* ---- the ladder: properties -------------------------------------------------
Alternatives(selector) == selector_syntax[selector].alternatives
\* every stream the selector can pick is filtered to have a video and an audio codec
RequiresBothCodecs(selector) ==
  \A a \in DOMAIN Alternatives(selector) : \A k \in DOMAIN Alternatives(selector)[a] :
    /\ In("vcodec!*=none", Alternatives(selector)[a][k].filters)
    /\ In("acodec!*=none", Alternatives(selector)[a][k].filters)
\* no filter anywhere: the selector matches whatever the source offers
Unconditional(selector) ==
  \A a \in DOMAIN Alternatives(selector) : \A k \in DOMAIN Alternatives(selector)[a] :
    Alternatives(selector)[a][k].filters = <<>>
\* every alternative is one combined stream in an mp4 container
CombinedMp4(selector) ==
  \A a \in DOMAIN Alternatives(selector) :
    /\ Len(Alternatives(selector)[a]) = 1
    /\ Alternatives(selector)[a][1].name \in {"best", "worst"}
    /\ In("ext=mp4", Alternatives(selector)[a][1].filters)
LadderBuilt == ladder.pc # "idle"
LadderPlatform == detect_platform(ladder.url)

\* The main thread of job j is inside the backend call of a ladder entry
StandardFetch(j) ==
  /\ j \in DOMAIN req /\ ~req[j].audio_only
  /\ pc[M(j)] \in {"ydl_call", "ydl_run", "ydl_ssl_run"}

\* C16: the ladder entries are attempted strictly in order: the i-th fetch attempt
\* hands the backend the selector of the i-th ladder entry (with the audio language
\* woven in when one is set), no entry is skipped and none follows a later one.
C16_LadderEntriesInOrder ==
  [][\A j \in Jobs :
       /\ StandardFetch(j)' =>
            opts_format(j)' = weave_audio_language(quality_options'[j][attempt'[j] + 1],
                                                   selected_audio_lang'[j])
       /\ attempt'[j] # attempt[j] =>
            \/ attempt'[j] = attempt[j] + 1
            \/ attempt'[j] = 0 /\ pc[M(j)] = "std_enter"]_vars

\* C17: for every quality tier, every selector of the ladder built without merge
\* capability carries filters that require both a video and an audio codec.
C17_MuxedLadderRequiresBothCodecs ==
  (/\ LadderBuilt
   /\ ~merger.ffmpeg_available
   /\ LadderPlatform # "dzen"
   /\ Lower(ladder.quality) \in Tiers)
  => \A i \in DOMAIN ladder.options : RequiresBothCodecs(ladder.options[i])

\* C18: for every supported tier and both merge states the ladder is non-empty, has
\* no repeated selector, ends in an unconditional selector, and is the same for the
\* same (tier, merge state).
C18_LadderWellFormed ==
  (LadderBuilt /\ Lower(ladder.quality) \in Tiers) =>
    LET options == ladder.options IN
    /\ Len(options) > 0
    /\ \A i, k \in DOMAIN options : options[i] = options[k] => i = k
    /\ Unconditional(options[Len(options)])
    /\ Len(Alternatives(options[Len(options)])) = 1
    /\ \A quality \in LadderQualities :
         Lower(quality) = Lower(ladder.quality) =>
           get_quality_fallbacks(quality, LadderPlatform = "dzen", merger.ffmpeg_available)
             = options

\* The twelve-entry ladder of 4k with merge capability has been built
C18_Witness ==
  /\ ladder.pc = "loop"
  /\ ladder.quality = "4k"
  /\ merger.ffmpeg_available
  /\ LadderPlatform = "youtube"
  /\ Len(ladder.options) = 12

\* C19: when an audio language is set, the selector handed to the backend for every
\* ladder entry contains a language clause for it and ends with the entry's own
\* selector as the last alternative.
C19_LanguageClauseInEverySelector ==
  (ladder.pc = "fetch" /\ ladder.lang # None) =>
    LET f == ladder.format
        n == Len(f)
    IN /\ \E i \in 1..(n - 2) :
            /\ f[i] \in {"[language=", "+bestaudio[language="}
            /\ f[i + 1] = ladder.lang
            /\ f[i + 2] = "]/"
       /\ n >= 2 /\ f[n - 1] = "]/" /\ f[n] = ladder.options[ladder.attempt + 1]

\* C20: the Dzen ladder requests, for every tier and in every selector, a combined
\* mp4 format and never a separate video and audio pair.
C20_DzenLadderCombinedMp4Only ==
  (LadderBuilt /\ LadderPlatform = "dzen" /\ Lower(ladder.quality) \in Tiers) =>
    \A i \in DOMAIN ladder.options : CombinedMp4(ladder.options[i])

\* ---- cutting the downloaded file (_apply_trim_to_file, _trim_video) ----------
\* youtube_downloader.py:689, the end of the range when only a start is given
NoEnd == 999999
\* What a request body gives for trim_start and trim_end (web_app.py:905-906): the
\* text of a JSON value, or None when the key is missing
TrimInputs == {None, "-5", "-2", "0", "10", "20", "abc"}
\* float(x) for those texts: the number in seconds, or a ValueError
ParseFloat(x) ==
  CASE x = "-5" -> [ok |-> TRUE, v |-> -5]
    [] x = "-2" -> [ok |-> TRUE, v |-> -2]
    [] x = "0" -> [ok |-> TRUE, v |-> 0]
    [] x = "10" -> [ok |-> TRUE, v |-> 10]
    [] x = "20" -> [ok |-> TRUE, v |-> 20]
    [] OTHER -> [ok |-> FALSE, v |-> 0]

\* 681-695 without the test of 693: a range is cut whatever its ends
trim_range_without_validation(trim_start, trim_end) ==
  IF trim_start = None /\ trim_end = None
  THEN [kind |-> "none", start |-> 0, end |-> 0]
  ELSE LET s == IF trim_start # None THEN ParseFloat(trim_start) ELSE [ok |-> TRUE, v |-> 0]
           e == IF trim_end # None THEN ParseFloat(trim_end) ELSE [ok |-> TRUE, v |-> NoEnd]
           start == IF s.v < 0 THEN 0 ELSE s.v
       IN IF ~s.ok \/ ~e.ok THEN [kind |-> "error", start |-> 0, end |-> 0]
          ELSE [kind |-> "trim", start |-> start, end |-> e.v]

\* 681-695: what _apply_trim_to_file makes of self.trim_start and self.trim_end
trim_range(trim_start, trim_end) ==
  IF trim_start = None /\ trim_end = None
  THEN [kind |-> "none", start |-> 0, end |-> 0]
  ELSE LET s == IF trim_start # None THEN ParseFloat(trim_start) ELSE [ok |-> TRUE, v |-> 0]
           e == IF trim_end # None THEN ParseFloat(trim_end) ELSE [ok |-> TRUE, v |-> NoEnd]
           start == IF s.v < 0 THEN 0 ELSE s.v
       IN IF ~s.ok \/ ~e.ok THEN [kind |-> "error", start |-> 0, end |-> 0]
          ELSE IF e.v <= start THEN [kind |-> "invalid", start |-> start, end |-> e.v]
          ELSE [kind |-> "trim", start |-> start, end |-> e.v]

\* 609-618 and 635-646: the two ffmpeg command lines of _trim_video
trim_cmd(codec, range) ==
  [codec |-> codec, ss |-> range.start, t |-> range.end - range.start,
   input |-> FilePath, output |-> TrimmedPath]

\* 670-705 and 596-627: the call up to its return or to the first ffmpeg run
apply_trim_to_file(trim_start, trim_end) ==
  /\ trim.pc = "idle"
  /\ LET range == trim_range(trim_start, trim_end)
         called == [trim EXCEPT !.trim_start = trim_start, !.trim_end = trim_end]
     IN IF range.kind # "trim" \/ ~merger.ffmpeg_available
        THEN trim' = [called EXCEPT !.pc = "returned", !.result = FilePath]
        ELSE trim' = [called EXCEPT !.pc = "copy",
                                    !.commands = <<trim_cmd("copy", range)>>]
  /\ UNCHANGED <<core_vars, OtherServices, ssl_retries>>

\* a stream-copy run whose timeout is followed by the re-encoding run as well
trim_copy_done_retrying_timeout(outcome) ==
  /\ trim.pc = "copy"
  /\ LET range == trim_range(trim.trim_start, trim.trim_end)
     IN CASE outcome = "ok" ->
               trim' = [trim EXCEPT !.pc = "trimmed", !.files.trimmed = TRUE]
          [] OTHER ->
               trim' = [trim EXCEPT !.pc = "reencode",
                                    !.commands = Append(@, trim_cmd("libx264", range))]
  /\ UNCHANGED <<core_vars, OtherServices, ssl_retries>>

\* 620-655 and 662-667: the stream-copy run ends; a failed one is followed by the
\* re-encoding run, a timeout or another exception makes _trim_video return False
trim_copy_done(outcome) ==
  /\ trim.pc = "copy"
  /\ LET range == trim_range(trim.trim_start, trim.trim_end)
     IN CASE outcome = "ok" ->
               trim' = [trim EXCEPT !.pc = "trimmed", !.files.trimmed = TRUE]
          [] outcome = "failed" ->
               trim' = [trim EXCEPT !.pc = "reencode",
                                    !.commands = Append(@, trim_cmd("libx264", range))]
          [] OTHER -> trim' = [trim EXCEPT !.pc = "returned", !.result = FilePath]
  /\ UNCHANGED <<core_vars, OtherServices, ssl_retries>>

\* 648-661: the re-encoding run ends
trim_reencode_done(outcome) ==
  /\ trim.pc = "reencode"
  /\ IF outcome = "ok"
     THEN trim' = [trim EXCEPT !.pc = "trimmed", !.files.trimmed = TRUE]
     ELSE trim' = [trim EXCEPT !.pc = "returned", !.result = FilePath]
  /\ UNCHANGED <<core_vars, OtherServices, ssl_retries>>

\* 707-735: the original is removed and the cut copy takes its name; either step may
\* fail, and a rename that keeps failing leaves the cut copy under its own name
trim_replace(unlinked, renamed) ==
  /\ trim.pc = "trimmed"
  /\ IF renamed
     THEN trim' = [trim EXCEPT !.pc = "returned", !.result = FilePath,
                               !.files = [original |-> TRUE, trimmed |-> FALSE]]
     ELSE trim' = [trim EXCEPT !.pc = "returned", !.result = TrimmedPath,
                               !.files.original = ~unlinked]
  /\ UNCHANGED <<core_vars, OtherServices, ssl_retries>>

\* the next file is downloaded
trim_reset ==
  /\ trim.pc = "returned"
  /\ trim' = NoTrim
  /\ UNCHANGED <<core_vars, OtherServices, ssl_retries>>

NextTrim ==
  \/ \E trim_start \in TrimInputs, trim_end \in TrimInputs :
       apply_trim_to_file(trim_start, trim_end)
  \/ \E outcome \in {"ok", "failed", "timeout"} : trim_copy_done(outcome)
  \/ \E outcome \in {"ok", "failed", "timeout"} : trim_reencode_done(outcome)
  \/ \E unlinked \in BOOLEAN, renamed \in BOOLEAN : trim_replace(unlinked, renamed)
  \/ trim_reset

SpecTrim == Init /\ [][NextTrim]_vars

\* ---- certificate verification of the backend calls ---------------------------
\* Thread t is inside a call of the backend (extract_info or download)
InBackendCall(t) == pc[t] \in {"info_run", "info_ssl_run", "ydl_run", "ydl_ssl_run"}

\* The value of 'nocheckcertificate' in the option bag of the call thread t is in:
\* _get_video_info passes its bag through _apply_ssl_options (1306, 307-311); the bags
\* of the download paths (1099-1146, 1247-1282, 1564-1650) never do and reach the
\* helper as built; the retries of 1318 and 1381 set the key
nocheckcertificate(t) ==
  CASE pc[t] = "info_run" -> downloader.insecure_ssl
    [] pc[t] = "info_ssl_run" -> TRUE
    [] pc[t] = "ydl_run" -> FALSE
    [] pc[t] = "ydl_ssl_run" -> TRUE
    [] OTHER -> FALSE

\* ---- what the backend finds for a selector -----------------------------------
\* The filters of those selectors as yt-dlp reads them: a field, a comparison and a value
filter_syntax ==
  ("acodec!*=none" :> [field |-> "acodec", op |-> "!*=", number |-> 0, text |-> "none"])
  @@ ("ext=m4a" :> [field |-> "ext", op |-> "=", number |-> 0, text |-> "m4a"])
  @@ ("ext=mp4" :> [field |-> "ext", op |-> "=", number |-> 0, text |-> "mp4"])
  @@ ("height<240" :> [field |-> "height", op |-> "<", number |-> 240, text |-> ""])
  @@ ("height<360" :> [field |-> "height", op |-> "<", number |-> 360, text |-> ""])
  @@ ("height<480" :> [field |-> "height", op |-> "<", number |-> 480, text |-> ""])
  @@ ("height<720" :> [field |-> "height", op |-> "<", number |-> 720, text |-> ""])
  @@ ("height<=1080" :> [field |-> "height", op |-> "<=", number |-> 1080, text |-> ""])
  @@ ("height<=144" :> [field |-> "height", op |-> "<=", number |-> 144, text |-> ""])
  @@ ("height<=1440" :> [field |-> "height", op |-> "<=", number |-> 1440, text |-> ""])
  @@ ("height<=2160" :> [field |-> "height", op |-> "<=", number |-> 2160, text |-> ""])
  @@ ("height<=240" :> [field |-> "height", op |-> "<=", number |-> 240, text |-> ""])
  @@ ("height<=360" :> [field |-> "height", op |-> "<=", number |-> 360, text |-> ""])
  @@ ("height<=480" :> [field |-> "height", op |-> "<=", number |-> 480, text |-> ""])
  @@ ("height<=720" :> [field |-> "height", op |-> "<=", number |-> 720, text |-> ""])
  @@ ("height=144" :> [field |-> "height", op |-> "=", number |-> 144, text |-> ""])
  @@ ("height=240" :> [field |-> "height", op |-> "=", number |-> 240, text |-> ""])
  @@ ("height=360" :> [field |-> "height", op |-> "=", number |-> 360, text |-> ""])
  @@ ("height=480" :> [field |-> "height", op |-> "=", number |-> 480, text |-> ""])
  @@ ("height>=1080" :> [field |-> "height", op |-> ">=", number |-> 1080, text |-> ""])
  @@ ("height>=144" :> [field |-> "height", op |-> ">=", number |-> 144, text |-> ""])
  @@ ("height>=1440" :> [field |-> "height", op |-> ">=", number |-> 1440, text |-> ""])
  @@ ("height>=2160" :> [field |-> "height", op |-> ">=", number |-> 2160, text |-> ""])
  @@ ("height>=240" :> [field |-> "height", op |-> ">=", number |-> 240, text |-> ""])
  @@ ("height>=360" :> [field |-> "height", op |-> ">=", number |-> 360, text |-> ""])
  @@ ("height>=480" :> [field |-> "height", op |-> ">=", number |-> 480, text |-> ""])
  @@ ("height>=720" :> [field |-> "height", op |-> ">=", number |-> 720, text |-> ""])
  @@ ("vcodec!*=none" :> [field |-> "vcodec", op |-> "!*=", number |-> 0, text |-> "none"])

\* A filter applied to a format the source offers
filter_holds(filter, f) ==
  LET s == filter_syntax[filter] IN
  CASE s.field = "height" ->
         (CASE s.op = "=" -> f.height = s.number
            [] s.op = "<=" -> f.height <= s.number
            [] s.op = "<" -> f.height < s.number
            [] s.op = ">=" -> f.height >= s.number
            [] OTHER -> f.height > s.number)
    [] s.field = "ext" -> f.ext = s.text
    [] s.field = "vcodec" -> f.vcodec # s.text
    [] OTHER -> f.acodec # s.text

\* best and worst pick a format with both codecs, bestvideo one without audio,
\* bestaudio one without video
stream_offered(stream, formats) ==
  \E f \in formats :
    /\ CASE stream.name = "bestvideo" -> f.vcodec # "none" /\ f.acodec = "none"
         [] stream.name = "bestaudio" -> f.vcodec = "none" /\ f.acodec # "none"
         [] OTHER -> f.vcodec # "none" /\ f.acodec # "none"
    /\ \A k \in DOMAIN stream.filters : filter_holds(stream.filters[k], f)

\* The download of a selector succeeds when one of its alternatives finds every
\* stream it names; otherwise yt-dlp raises 'Requested format is not available'
selector_offered(selector, formats) ==
  \E a \in DOMAIN selector_syntax[selector].alternatives :
    \A k \in DOMAIN selector_syntax[selector].alternatives[a] :
      stream_offered(selector_syntax[selector].alternatives[a][k], formats)

\* A source whose only format is a 360p mp4 with both codecs
Muxed360 == [height |-> 360, ext |-> "mp4", vcodec |-> "avc1", acodec |-> "mp4a"]

\* web_app.py:931-948: the notices download_task stores for the job, in order; none
\* leaves the record without a 'download_notice'
download_notice(quality, insecure_ssl, ffmpeg_available) ==
  (IF insecure_ssl THEN <<"SSL verification disabled for this download.">> ELSE <<>>)
  \o (IF ~ffmpeg_available /\ Lower(quality) \notin {"360p", "best"}
      THEN <<"Requested ", quality, ", but only 360p available due to no FFmpeg. ">>
      ELSE <<>>)

\* ======================= claims C21 to C30 ===================================

\* C21: any two distinct supported tiers have ladders whose first selectors differ,
\* in every ladder family (with merge capability, without it, and the Dzen override).
C21_FirstSelectorsDiffer ==
  (LadderBuilt /\ Lower(ladder.quality) \in Tiers) =>
    \A quality \in Tiers :
      quality # Lower(ladder.quality) =>
        get_quality_fallbacks(quality, LadderPlatform = "dzen", merger.ffmpeg_available)[1]
          # ladder.options[1]

\* The same statement outside the Dzen override
FirstSelectorsDifferOffDzen ==
  (LadderBuilt /\ Lower(ladder.quality) \in Tiers /\ LadderPlatform # "dzen") =>
    \A quality \in Tiers :
      quality # Lower(ladder.quality) =>
        get_quality_fallbacks(quality, FALSE, merger.ffmpeg_available)[1]
          # ladder.options[1]

\* The known domains and the platform of each (the lists of 284-299)
KnownDomains ==
  [d \in {"youtube.com", "youtu.be", "youtube-nocookie.com"} |-> "youtube"] @@
  [d \in {"vk.com", "vkontakte.ru"} |-> "vk"] @@
  [d \in {"dzen.ru", "zen.yandex"} |-> "dzen"] @@
  [d \in {"rutube.ru"} |-> "rutube"] @@
  [d \in {"instagram.com"} |-> "instagram"] @@
  [d \in {"tiktok.com"} |-> "tiktok"] @@
  [d \in {"twitch.tv"} |-> "twitch"] @@
  [d \in {"vimeo.com", "player.vimeo.com"} |-> "vimeo"]
PlatformTags ==
  {"youtube", "vk", "dzen", "rutube", "instagram", "tiktok", "twitch", "vimeo", "unknown"}
\* The known domains a URL contains, whatever the case of its letters
DomainsIn(url) == {d \in DOMAIN KnownDomains : \E i \in DOMAIN url : Lower(url[i]) = d}
LowerUrl(url) == [i \in DOMAIN url |-> Lower(url[i])]

EmptyRange ==
  /\ trim.pc # "idle"
  /\ trim.trim_start # None \/ trim.trim_end # None
  /\ LET s == IF trim.trim_start # None THEN ParseFloat(trim.trim_start)
                                        ELSE [ok |-> TRUE, v |-> 0]
         e == IF trim.trim_end # None THEN ParseFloat(trim.trim_end)
                                      ELSE [ok |-> TRUE, v |-> NoEnd]
     IN s.ok /\ e.ok /\ e.v <= (IF s.v < 0 THEN 0 ELSE s.v)

\* C23: a trim call whose range has end <= start (a negative start counted as 0) runs
\* no ffmpeg command, removes and renames nothing, and returns the original path.
C23_EmptyRangeLeavesFile ==
  EmptyRange =>
    /\ trim.pc = "returned"
    /\ trim.commands = <<>>
    /\ trim.files = OnlyOriginal
    /\ trim.result = FilePath

\* A call with start -5 and end 0 has returned where ffmpeg is installed
C23_Witness ==
  /\ trim.pc = "returned"
  /\ trim.trim_start = "-5" /\ trim.trim_end = "0"
  /\ merger.ffmpeg_available
  /\ trim.result = FilePath

\* The main thread of job j is inside _download_ultra_mode or a call it made
InPipeline(j) ==
  pc[M(j)] \notin {"idle", "task_begin", "task_set_id", "download", "ultra_enter",
                   "task_finish"}

\* C24: the temporary directory of the dual-stream pipeline does not exist once the
\* pipeline has returned, on whichever path it returned: success, no metadata, a
\* failed fetch, a failed merge, an exception, or the fallback to standard mode.
C24_TempDirRemovedOnReturn ==
  \A j \in Jobs : ~InPipeline(j) => ~temp_dir[j]

\* The pipeline created its directory, the merge failed, standard mode ran as the
\* fallback and returned
C24_Witness ==
  /\ pc[M(1)] = "task_finish"
  /\ obs[1].ultraFail = "merge"
  /\ obs[1].stdRuns = 1

\* C25: a backend call with certificate verification disabled is made only for a job
\* whose request permits insecure mode: no metadata or download call of a job
\* submitted without the permission runs with verification disabled.
C25_NoBypassWithoutPermission ==
  \A t \in Threads :
    (t[1] \in DOMAIN req /\ InBackendCall(t) /\ nocheckcertificate(t)) =>
      req[t[1]].insecure_ssl

\* C26: while the insecure-SSL flag of the downloader is true, the option bag of
\* every backend call (metadata, standard, audio-only and stream downloads) has
\* certificate verification disabled.
C26_InsecureFlagReachesEveryCall ==
  \A t \in Threads :
    (InBackendCall(t) /\ downloader.insecure_ssl) => nocheckcertificate(t)

\* The same for the metadata calls alone
InsecureFlagReachesMetadataCalls ==
  \A t \in Threads :
    (pc[t] \in {"info_run", "info_ssl_run"} /\ downloader.insecure_ssl) =>
      nocheckcertificate(t)

\* The loop is on the entry whose fetch succeeds when the source offers `formats`:
\* the first entry the backend finds a format for
FirstOffered(formats) ==
  /\ ladder.pc = "fetch"
  /\ ladder.lang = None
  /\ \A k \in 1..ladder.attempt : ~selector_offered(ladder.options[k], formats)
  /\ selector_offered(ladder.format[1], formats)

\* 480p is asked of an unknown platform on a server without ffmpeg
Scenario480 ==
  /\ LadderBuilt
  /\ ladder.quality = "480p"
  /\ LadderPlatform = "unknown"
  /\ ~merger.ffmpeg_available

\* C28: for 480p without merge capability on an unknown platform every ladder entry
\* requires a combined format, and when the source offers only a 360p combined format
\* the fetch that succeeds is the one of the universal fallback, with a notice for
\* the user that is not empty.
C28_FallsThroughToUniversalFallback ==
  (Scenario480 /\ FirstOffered({Muxed360})) =>
    /\ \A i \in DOMAIN ladder.options : RequiresBothCodecs(ladder.options[i])
    /\ Unconditional(ladder.format[1])
    /\ download_notice(ladder.quality, FALSE, merger.ffmpeg_available) # <<>>

\* The part of it that holds: the job gets a format of 360p and the notice
SucceedsAt360WithNotice ==
  (Scenario480 /\ FirstOffered({Muxed360})) =>
    /\ \E k \in DOMAIN Alternatives(ladder.format[1])[1] :
         In("height>=360", Alternatives(ladder.format[1])[1][k].filters)
    /\ download_notice(ladder.quality, FALSE, merger.ffmpeg_available) # <<>>

\* The entry that succeeds is the third of the six
SucceedsAtThirdEntry ==
  (Scenario480 /\ FirstOffered({Muxed360})) => ladder.attempt = 2

\* Job j asks for 720p of a YouTube URL on a server with ffmpeg, with verification on
Scenario720(j) ==
  /\ j \in DOMAIN req
  /\ detect_platform(req[j].url) = "youtube"
  /\ req[j].quality = "720p"
  /\ ~req[j].audio_only
  /\ merger.ffmpeg_available

\* The first entry of the ladder of job j asks for a video stream of at most 720p
\* joined with the best audio stream
TargetsSeparate720(j) ==
  LET first == Alternatives(quality_options[j][1])[1] IN
  /\ Len(first) = 2
  /\ first[1].name = "bestvideo" /\ In("height<=720", first[1].filters)
  /\ first[2] = [name |-> "bestaudio", filters |-> <<>>]

\* C27: end to end for 720p of YouTube with merge capability: the first ladder entry
\* targets separate 720p video plus best audio; a Forbidden answer to the first fetch
\* is followed by a second fetch with rotated headers; and when that fetch succeeds
\* the job succeeds with an empty notice.
C27_ForbiddenThenSuccess ==
  [][\A j \in Jobs : Scenario720(j) =>
       /\ InStandardLoop(j) => TargetsSeparate720(j)
       /\ (FetchFails(j, Msg403) /\ attempt[j] = 0) =>
            /\ pc'[M(j)] \in {"std_loop", "ydl_call"}
            /\ obs'[j].user_agent # None
       /\ (InStandardLoop(j) /\ attempt[j] = 1 /\ pc'[M(j)] = "task_finish") =>
            (success'[j] => download_notice(req[j].quality, req[j].insecure_ssl,
                                            merger.ffmpeg_available) = <<>>)]_vars

\* The parts of it that hold: the first entry, a second fetch after the Forbidden
\* answer, and the empty notice of the job that succeeds on it
ForbiddenThenSuccessWithoutHeaders ==
  [][\A j \in Jobs : Scenario720(j) =>
       /\ InStandardLoop(j) => TargetsSeparate720(j)
       /\ (FetchFails(j, Msg403) /\ attempt[j] = 0) =>
            /\ pc'[M(j)] = "std_loop"
            /\ attempt'[j] = 1
       /\ (InStandardLoop(j) /\ attempt[j] = 1 /\ pc'[M(j)] = "task_finish") =>
            (success'[j] => download_notice(req[j].quality, req[j].insecure_ssl,
                                            merger.ffmpeg_available) = <<>>)]_vars

\* The job succeeded on its second fetch
SucceededOnSecondFetch ==
  /\ Scenario720(1)
  /\ pc[M(1)] = "task_finish"
  /\ success[1]
  /\ attempt[1] = 1
  /\ obs[1].faults = 1

\* Backend download calls the helper has made for the entry thread t is fetching,
\* the running one included
FetchAttempts(t) ==
  CASE pc[t] \in {"ydl_run", "ydl_ssl_run"} -> retry[t] + 1 + ssl_retries[t]
    [] pc[t] = "ydl_call" -> retry[t] + ssl_retries[t]
    [] OTHER -> 0

\* The step in which the running call of thread t raises `error`
CallFails(t, error) ==
  /\ t[1] \in DOMAIN req
  /\ \/ pc[t] = "ydl_run" /\ ydl_failed(t, error, Fault(obs[t[1]]))
     \/ pc[t] = "ydl_ssl_run" /\ ydl_ssl_failed(t, error, Fault(obs[t[1]]))

\* C29: for a job with verification on, a certificate failure of a fetch is followed
\* at once by one retry of the same entry with verification disabled, and within one
\* ladder entry no second retry with verification disabled is made, whatever fails
\* afterwards.
C29_OneBypassPerEntry ==
  [][\A t \in Threads :
       /\ (pc[t] = "ydl_run" /\ ~downloader.insecure_ssl /\ CallFails(t, MsgSsl)) =>
            /\ pc'[t] = "ydl_ssl_run"
            /\ attempt'[t[1]] = attempt[t[1]]
       /\ ssl_retries'[t] <= 1]_vars

\* The first half of it: the retry follows at once, on the same entry
BypassFollowsAtOnce ==
  [][\A t \in Threads :
       (pc[t] = "ydl_run" /\ ~downloader.insecure_ssl /\ CallFails(t, MsgSsl)) =>
         /\ pc'[t] = "ydl_ssl_run"
         /\ attempt'[t[1]] = attempt[t[1]]]_vars

\* C30: a file-locked failure is followed by a retry of the same entry after a pause
\* that grows from one retry to the next, the entry never gets more than 3 fetch
\* attempts in total, the ladder position is not touched, and a file-locked failure
\* of the last allowed pass makes the helper report the entry failed.
C30_FileLockedRetriesCapped ==
  [][\A t \in Threads :
       /\ CallFails(t, MsgLocked) =>
            IF retry[t] < max_retries - 1
            THEN /\ pc'[t] = "ydl_call"
                 /\ retry'[t] = retry[t] + 1
                 /\ attempt'[t[1]] = attempt[t[1]]
                 /\ wait_time(retry[t]) < wait_time(retry'[t])
            ELSE /\ pc'[t] \notin {"ydl_call", "ydl_run", "ydl_ssl_run"}
                 /\ retry'[t] = 0
       /\ FetchAttempts(t)' <= max_retries]_vars

\* The same with the cap on the passes of the loop instead of on the backend calls
FileLockedPassesCapped ==
  [][\A t \in Threads :
       /\ CallFails(t, MsgLocked) =>
            IF retry[t] < max_retries - 1
            THEN /\ pc'[t] = "ydl_call"
                 /\ retry'[t] = retry[t] + 1
                 /\ attempt'[t[1]] = attempt[t[1]]
                 /\ wait_time(retry[t]) < wait_time(retry'[t])
            ELSE /\ pc'[t] \notin {"ydl_call", "ydl_run", "ydl_ssl_run"}
                 /\ retry'[t] = 0
       /\ retry'[t] < max_retries
       /\ ssl_retries'[t] = 0 => FetchAttempts(t)' <= max_retries]_vars

\* ---- the ladder loop run to its end ------------------------------------------
MaxLadderFaults == 8     \* backend failures injected into a job that uses up its ladder

\* Requests whose ladders differ in length and in platform
LadderLoopRequests ==
  {Request(UrlYoutube, "720p", FALSE, None, FALSE, None),
   Request(UrlDzen, "720P", FALSE, None, TRUE, None),
   Request(UrlOther, "best", FALSE, "en", FALSE, None)}

\* A server without MoviePy: every video job takes _download_standard_mode
InitLadderLoop == Init /\ ~merger.available

NextLadderLoop ==
  \E j \in SoloJobs :
    \/ \E r \in LadderLoopRequests : start_download(j, r)
    \/ task_begin(j)
    \/ set_download_id(j)
    \/ download(j)
    \/ std_enter(j)
    \/ std_loop(j)
    \/ task_finish(j)
    \/ ydl_call(M(j))
    \/ ydl_return(M(j), MaxLadderFaults)
    \/ ydl_ssl_return(M(j), MaxLadderFaults)
    \/ progress_hook(M(j))

SpecLadderLoop == InitLadderLoop /\ [][NextLadderLoop]_vars

\* ---- _select_formats on its own (youtube_downloader.py:1408-1550) --------------
MaxFormats == 4          \* formats in the metadata of one video

\* Formats a video can have: video-only streams of several heights, protocols and
\* bitrates, and audio-only streams
FormatPool ==
  <<Format("160", "avc1", "none", 144, "https", 100, None),
    Format("133", "avc1", "none", 240, "https", 250, None),
    Format("136", "avc1", "none", 720, "https", 2000, None),
    Format("298", "avc1", "none", 720, "https", 3000, None),
    Format("137", "avc1", "none", 1080, "m3u8_native", 4000, None),
    Format("399", "av01", "none", 1080, "https", 3500, None),
    Format("135", "avc1", "none", 480, "https", 1000, None),
    Format("dash-1080", "avc1", "none", 1080, "https", 4200, None),
    Format("140", "none", "mp4a", 0, "https", 128, "en"),
    Format("251", "none", "opus", 0, "https", 160, "en"),
    Format("hls-audio", "none", "mp4a", 0, "m3u8", 96, "en")>>

\* The formats of the pool at the positions `chosen`, in the order of the pool
FormatsAt(chosen) ==
  [i \in 1..Cardinality(chosen) |->
     FormatPool[CHOOSE k \in chosen : Cardinality({m \in chosen : m < k}) = i - 1]]

SelectInfos ==
  {[ok |-> TRUE, formats |-> FormatsAt(chosen)] :
     chosen \in {c \in SUBSET DOMAIN FormatPool : Cardinality(c) \in 2..MaxFormats}}

\* 994: _download_ultra_mode calls _select_formats with the metadata and the quality
select_formats_call(info, quality, is_dzen, audio_lang) ==
  /\ selection.pc = "idle"
  /\ selection' = [pc |-> "returned", info |-> info, quality |-> quality,
                   is_dzen |-> is_dzen, audio_lang |-> audio_lang,
                   result |-> select_formats(info, quality, is_dzen, audio_lang)]
  /\ UNCHANGED <<core_vars, first_services, validation, rate_vars>>

\* 996-1004: the caller has read the pair
select_formats_done ==
  /\ selection.pc = "returned"
  /\ selection' = NoSelection
  /\ UNCHANGED <<core_vars, first_services, validation, rate_vars>>

NextSelect ==
  \/ \E info \in SelectInfos, quality \in Tiers, is_dzen \in BOOLEAN,
        audio_lang \in {None, "en"} :
       select_formats_call(info, quality, is_dzen, audio_lang)
  \/ select_formats_done

InitSelect == Init /\ merger.available /\ merger.ffmpeg_available

SpecSelect == InitSelect /\ [][NextSelect]_vars

\* web_app.py:795-811 and 835 (quality_order): the height each quality tier stands for;
\* 'best' asks for the largest (youtube_downloader.py:1419)
tier_height(quality) ==
  CASE quality \in {"best", "4k"} -> 2160
    [] quality = "1440p" -> 1440
    [] quality = "1080p" -> 1080
    [] quality = "720p" -> 720
    [] quality = "480p" -> 480
    [] quality = "360p" -> 360
    [] quality = "240p" -> 240
    [] quality = "144p" -> 144

\* ---- _validate_and_fix_file (youtube_downloader.py:471-520) --------------------
MaxRemuxes == 2          \* times the content of one download is remuxed

\* Names in the download directory are a stem followed by its suffixes
DownloadNames == {<<"clip", ".mp4">>, <<"clip", ".webm">>}
\* What the backend writes: the media of two different downloads
Downloads == {<<"A">>, <<"B">>}
\* ffmpeg -c copy -movflags +faststart: the same media in a new container (573-582)
Remux(content) == Append(content, "remuxed")

Front(s) == SubSeq(s, 1, Len(s) - 1)
\* 501: path.with_suffix('.mp4')
with_suffix_mp4(path) == Append(Front(path), ".mp4")
\* 504: path.with_name(path.stem + '_fixed.mp4')
fixed_name(path) == Front(path) \o <<"_fixed", ".mp4">>
\* 511: path.with_suffix(path.suffix + '.orig')
backup_name(path) == Append(path, ".orig")

Exists(files, name) == name \in DOMAIN files
Write(files, name, content) == (name :> content) @@ files
\* src.replace(dst): dst gets the content of src, src is gone
Replace(files, src, dst) == Remove(Write(files, dst, files[src]), src)

\* the backend writes a downloaded file, over a file of the same name if there is one
download_file(filename, content) ==
  /\ validation.pc = "idle"
  /\ validation' = [validation EXCEPT !.files = Write(@, filename, content)]
  /\ UNCHANGED <<core_vars, first_services, selection, rate_vars>>

\* 471-520: one call; `probe_ok` says whether ffprobe found a duration and a width,
\* `remux_ok` whether ffmpeg exited with 0, `backup_ok` and `swap_ok` whether the two
\* Path.replace calls of 513 and 514 went through
validate_and_fix_file(filename, probe_ok, remux_ok, backup_ok, swap_ok) ==
  /\ validation.pc = "idle"
  /\ LET files == validation.files
         called == [validation EXCEPT
                      !.pc = "returned", !.filename = filename,
                      !.before = IF Exists(files, filename) THEN files[filename] ELSE Absent,
                      !.had_backup = Exists(files, backup_name(filename))]
         target == IF Exists(files, with_suffix_mp4(filename)) THEN fixed_name(filename)
                   ELSE with_suffix_mp4(filename)
         backup == backup_name(filename)
     IN IF ~Exists(files, filename)
        THEN validation' = [called EXCEPT !.result = None]
        ELSE IF probe_ok \/ ~remux_ok
        THEN validation' = [called EXCEPT !.result = filename]
        ELSE /\ Len(files[filename]) <= MaxRemuxes
             /\ LET remuxed == Write(files, target, Remux(files[filename]))
                    kept == IF Exists(files, backup) THEN remuxed
                            ELSE Replace(remuxed, filename, backup)
                IN IF ~Exists(files, backup) /\ ~backup_ok
                   THEN validation' = [called EXCEPT !.files = remuxed, !.result = target]
                   ELSE IF ~swap_ok
                   THEN validation' = [called EXCEPT !.files = kept, !.result = target]
                   ELSE validation' = [called EXCEPT !.files = Replace(kept, target, filename),
                                                     !.result = filename]
  /\ UNCHANGED <<core_vars, first_services, selection, rate_vars>>

\* 419-423: _progress_hook has read the result
validate_done ==
  /\ validation.pc = "returned"
  /\ validation' = [NoValidation EXCEPT !.files = validation.files]
  /\ UNCHANGED <<core_vars, first_services, selection, rate_vars>>

NextValidate ==
  \/ \E filename \in DownloadNames, content \in Downloads : download_file(filename, content)
  \/ \E filename \in DownloadNames, probe_ok \in BOOLEAN, remux_ok \in BOOLEAN,
        backup_ok \in BOOLEAN, swap_ok \in BOOLEAN :
       validate_and_fix_file(filename, probe_ok, remux_ok, backup_ok, swap_ok)
  \/ validate_done

InitValidate == Init /\ merger.ffmpeg_available

SpecValidate == InitValidate /\ [][NextValidate]_vars

\* ---- rate_limit (web_app.py:62-106) ---------------------------------------------
RateStep == 30           \* seconds the clock advances by between two readings
MaxRateTime == 61        \* seconds on the clock when the last request arrives
MaxRateRequests == 3     \* requests the clients send after the server state of Init
EarlierRequests == 4     \* downloads a client has started before, all at StartTime

Clients == {"10.0.0.1", "10.0.0.2"}
\* 647 and 864: the decorators of the two rate-limited endpoints
Endpoints == {"get_video_info", "start_download"}
max_requests(endpoint) == IF endpoint = "get_video_info" THEN 15 ELSE 5
window_seconds(endpoint) == 60

\* _rate_limit_data[client_ip] of a defaultdict(list): a missing key reads as []
Ledger(client_ip) ==
  IF client_ip \in DOMAIN rate_limit_data THEN rate_limit_data[client_ip] ELSE <<>>
\* the requests that were let through or are still to be decided
Served ==
  Cardinality({r \in RequestThreads : wrapped[r].pc \in {"timed", "locked"}})
  + Cardinality({i \in DOMAIN accepted : ~accepted[i].earlier})

\* time passes
rate_tick ==
  /\ now + Seconds(RateStep) <= Seconds(MaxRateTime)
  /\ now' = now + Seconds(RateStep)
  /\ UNCHANGED <<core_vars, timeless_services, selection, validation, rate_vars>>

\* 84-85: a request reaches the wrapper, which reads the client address and the clock
rate_enter(r, client_ip, endpoint) ==
  /\ wrapped[r].pc = "idle"
  /\ Served < MaxRateRequests
  /\ wrapped' = [wrapped EXCEPT ![r] = [pc |-> "timed", client_ip |-> client_ip,
                                        endpoint |-> endpoint, current_time |-> now]]
  /\ UNCHANGED <<core_vars, first_services, selection, validation, rate_limit_data,
                 rate_limit_lock, accepted>>

\* 87: with _rate_limit_lock
rate_acquire(r) ==
  /\ wrapped[r].pc = "timed"
  /\ rate_limit_lock = NoLock
  /\ rate_limit_lock' = r
  /\ wrapped' = [wrapped EXCEPT ![r].pc = "locked"]
  /\ UNCHANGED <<core_vars, first_services, selection, validation, rate_limit_data, accepted>>

\* 88-102: old entries are dropped, the request is refused or recorded, and the lock is
\* released on the way out of the with block
rate_checked(r) ==
  /\ wrapped[r].pc = "locked"
  /\ LET w == wrapped[r]
         Recent(t) == w.current_time - t < Seconds(window_seconds(w.endpoint))
         cleaned == SelectSeq(Ledger(w.client_ip), Recent)
     IN IF Len(cleaned) >= max_requests(w.endpoint)
        THEN /\ rate_limit_data' = (w.client_ip :> cleaned) @@ rate_limit_data
             /\ wrapped' = [wrapped EXCEPT ![r].pc = "refused"]
             /\ UNCHANGED accepted
        ELSE /\ rate_limit_data' =
                  (w.client_ip :> Append(cleaned, w.current_time)) @@ rate_limit_data
             /\ wrapped' = [wrapped EXCEPT ![r].pc = "endpoint"]
             /\ accepted' = Append(accepted, [client_ip |-> w.client_ip,
                                              endpoint |-> w.endpoint,
                                              current_time |-> w.current_time,
                                              at |-> now, earlier |-> FALSE])
  /\ rate_limit_lock' = NoLock
  /\ UNCHANGED <<core_vars, first_services, selection, validation>>

\* 96-99 / 104: the 429 answer is sent, or the endpoint function returns
rate_return(r) ==
  /\ wrapped[r].pc \in {"refused", "endpoint"}
  /\ wrapped' = [wrapped EXCEPT ![r] = IdleRequest]
  /\ UNCHANGED <<core_vars, first_services, selection, validation, rate_limit_data,
                 rate_limit_lock, accepted>>

NextRate ==
  \/ rate_tick
  \/ \E r \in RequestThreads :
       \/ \E client_ip \in Clients, endpoint \in Endpoints : rate_enter(r, client_ip, endpoint)
       \/ rate_acquire(r)
       \/ rate_checked(r)
       \/ rate_return(r)

\* A server on which one client has started n downloads already, all let through
InitRate ==
  /\ InitCore /\ ~merger.available /\ ~merger.ffmpeg_available
  /\ InitFirst
  /\ selection = NoSelection
  /\ validation = NoValidation
  /\ \E n \in {0, EarlierRequests} :
       /\ rate_limit_data = IF n = 0 THEN <<>>
                            ELSE ("10.0.0.1" :> [i \in 1..n |-> StartTime])
       /\ accepted = [i \in 1..n |-> [client_ip |-> "10.0.0.1", endpoint |-> "start_download",
                                       current_time |-> StartTime, at |-> StartTime,
                                       earlier |-> TRUE]]
  /\ rate_limit_lock = NoLock
  /\ wrapped = [r \in RequestThreads |-> IdleRequest]

SpecRate == InitRate /\ [][NextRate]_vars

\* ---- properties of the ladder loop, the dual-stream pipeline and the web layer ---
\* C31: a failure of no known class moves the ladder loop to the next entry; the
\* position only ever advances by one, a used-up ladder makes the standard path return
\* failure, and the position never passes the length of the ladder.
C31_GenericFailureWalksLadder ==
  [][\A j \in SoloJobs :
       /\ FetchFails(j, MsgTimeout) =>
            /\ attempt'[j] = attempt[j] + 1
            /\ pc'[M(j)] = "std_loop"
       /\ attempt'[j] # attempt[j] => attempt'[j] \in {0, attempt[j] + 1}
       /\ (pc[M(j)] = "std_loop" /\ attempt[j] >= Len(quality_options[j])
           /\ pc'[M(j)] # "std_loop") =>
            /\ pc'[M(j)] = "task_finish"
            /\ ~success'[j]
            /\ obs'[j].stdResult = "false"
       /\ attempt'[j] <= Len(quality_options'[j])]_vars

\* Every entry of the ladder failed once and the standard path returned failure
C31_Witness ==
  /\ 1 \in DOMAIN req
  /\ Len(quality_options[1]) > 0
  /\ attempt[1] = Len(quality_options[1])
  /\ obs[1].faults = Len(quality_options[1])
  /\ obs[1].stdResult = "false"
  /\ ~success[1]

\* The two stream threads of job j
StreamThreads(j) == {<<j, "video">>, <<j, "audio">>}
\* The fetch of stream thread t has ended without a file
FetchLost(t) == pc[t] = "finished" /\ stream_file[t] = NoFile

\* C32: the merge of the dual-stream pipeline starts only in a step that finds both
\* stream fetches finished with a file each; a fetch that fails ends its thread without
\* a file, and when either thread ended without a file the pipeline leaves the join
\* for the standard path with its failure recorded, never for the merge.
C32_MergeOnlyAfterBothFetches ==
  [][\A j \in SoloJobs :
       /\ (pc[M(j)] # "ultra_merge" /\ pc'[M(j)] = "ultra_merge") =>
            /\ pc[M(j)] = "ultra_join"
            /\ \A t \in StreamThreads(j) : pc[t] = "finished" /\ stream_file[t] # NoFile
       /\ (pc[M(j)] = "ultra_join" /\ pc'[M(j)] # "ultra_join") =>
            \A t \in StreamThreads(j) : pc[t] = "finished"
       /\ \A t \in StreamThreads(j) :
            (\E e \in DownloadErrors : CallFails(t, e)) /\ pc'[t] = "finished" =>
               /\ stream_file'[t] = NoFile
               /\ pc'[M(j)] = "ultra_join"
       /\ (pc[M(j)] = "ultra_join" /\ pc'[M(j)] # "ultra_join"
           /\ \E t \in StreamThreads(j) : FetchLost(t)) =>
            /\ pc'[M(j)] = "std_enter"
            /\ obs'[j].ultraFail = "fetch"]_vars

\* One stream was fetched, the other was not, and the pipeline has given up
C32_Witness ==
  /\ pc[M(1)] = "std_enter"
  /\ obs[1].ultraFail = "fetch"
  /\ obs[1].faults = 1

\* The streams of the metadata that carry only video, and only audio (in the requested
\* language when one is set)
Range(s) == {s[i] : i \in DOMAIN s}
VideoOnly(info) == {f \in Range(info.formats) : HasVideo(f) /\ ~HasAudio(f)}
AudioOnly(info, audio_lang) ==
  {f \in Range(info.formats) :
     HasAudio(f) /\ ~HasVideo(f) /\ (audio_lang # None => f.language = audio_lang)}
Chosen(info, format_id) == CHOOSE f \in Range(info.formats) : f.format_id = format_id
\* The order of preference among video streams for a target height, and among audio
\* streams: a smaller tuple is preferred
VideoRank(f, is_dzen, height) ==
  <<0 - reliability_score(f, is_dzen), Abs(f.height - height), 0 - f.height, 0 - f.rate>>
AudioRank(f, is_dzen) == <<0 - reliability_score(f, is_dzen), 0 - f.rate>>
Selected == selection.pc = "returned" /\ selection.result[1] # None

\* The chosen pair is a video-only and an audio-only stream of the metadata, no other
\* video-only stream is preferred to the chosen one for the target height, and no other
\* audio-only stream is preferred to the chosen one
BestPair(height) ==
  LET v == Chosen(selection.info, selection.result[1])
      a == Chosen(selection.info, selection.result[2])
  IN /\ v \in VideoOnly(selection.info)
     /\ a \in AudioOnly(selection.info, selection.audio_lang)
     /\ \A c \in VideoOnly(selection.info) :
          ~LexLess(VideoRank(c, selection.is_dzen, height),
                   VideoRank(v, selection.is_dzen, height))
     /\ \A c \in AudioOnly(selection.info, selection.audio_lang) :
          ~LexLess(AudioRank(c, selection.is_dzen), AudioRank(a, selection.is_dzen))

\* C33: for every quality tier, the video-only stream chosen for the dual-stream pipeline
\* has the highest reliability score, then the height nearest to the height of the
\* requested tier, then the greater height, then the greater bitrate; the audio-only
\* stream chosen has the highest reliability score, then the highest bitrate.
C33_BestCandidatesChosen ==
  Selected => BestPair(tier_height(selection.quality))

\* The same for the tiers _select_formats has a height for (1418-1421)
BestCandidatesChosenAbove240p ==
  (Selected /\ selection.quality \notin {"240p", "144p"}) =>
     BestPair(tier_height(selection.quality))

\* For every tier the pair is the best one for the height _select_formats aims at
BestCandidatesForCodeTarget ==
  Selected => BestPair(target_height(selection.quality))

\* The files that are parts of a download still to be put together: the two files of
\* the dual-stream pipeline in its temporary directory and the per-format files
StreamFiles == {FileTempVideo, FileTempAudio, FileFormat, FileWebm}

\* C34: with a trim range set, no finished event of an intermediate stream file (a
\* temporary video or audio file of the dual-stream pipeline, or a per-format file that
\* is still to be merged) makes the progress hook trim that file.
C34_StreamFilesNeverTrimmed ==
  \A j \in Jobs : obs[j].trimmed \notin StreamFiles

\* Without a trim range the progress hook trims nothing
NoRangeNoTrim ==
  \A j \in Jobs : (j \in DOMAIN req /\ obs[j].trimmed # NoFile) => req[j].trim # None

\* The codecs of the transcoder runs the running trim has made, in order
TrimRuns == [i \in DOMAIN trim.commands |-> trim.commands[i].codec]

\* C35: a trim runs the stream-copy cut first and the re-encoding cut only after the
\* stream-copy cut exited with failure; a timeout of either cut ends the trim without
\* another transcoder run; a trim makes at most two transcoder runs, and a failed trim
\* leaves the original file in place and returns its path.
C35_CopyThenReencodeOnce ==
  [][/\ TrimRuns' \in {<<>>, <<"copy">>, <<"copy", "libx264">>}
     /\ Len(TrimRuns') > Len(TrimRuns) =>
          \/ trim.pc = "idle" /\ TrimRuns' = <<"copy">>
          \/ trim_copy_done("failed") /\ TrimRuns' = <<"copy", "libx264">>
     /\ (trim_copy_done("timeout") \/ trim_reencode_done("timeout")
         \/ trim_reencode_done("failed")) =>
          /\ TrimRuns' = TrimRuns
          /\ trim'.pc = "returned"
          /\ trim'.result = FilePath
          /\ trim'.files = OnlyOriginal]_vars

\* Both cuts were run and failed, and the trim has returned the original file
C35_Witness ==
  /\ trim.pc = "returned"
  /\ TrimRuns = <<"copy", "libx264">>
  /\ trim.result = FilePath
  /\ trim.files = OnlyOriginal

\* The content the validated file had when the call began is still at its path or under
\* the backup name
BeforeKept ==
  LET files == validation.files
      backup == backup_name(validation.filename)
  IN \/ Exists(files, validation.filename) /\ files[validation.filename] = validation.before
     \/ Exists(files, backup) /\ files[backup] = validation.before

\* C36: after _validate_and_fix_file returns for a file that existed, the content the
\* file had before the call is still in the directory, at the path of the file or under
\* its backup name, whatever validations and repairs went before.
C36_ValidationKeepsOriginal ==
  (validation.pc = "returned" /\ validation.before # Absent) => BeforeKept

\* The same for a call that found no backup of the file in the directory
FirstRepairKeepsOriginal ==
  (validation.pc = "returned" /\ validation.before # Absent /\ ~validation.had_backup) =>
     BeforeKept

\* The requests of one client to one endpoint that were let through with a time in the
\* window of `seconds` that ends at time `end`
AcceptedInWindow(client_ip, endpoint, end, seconds) ==
  {i \in DOMAIN accepted :
     /\ accepted[i].client_ip = client_ip
     /\ accepted[i].endpoint = endpoint
     /\ end - Seconds(seconds) < accepted[i].current_time
     /\ accepted[i].current_time <= end}
\* No window that ends at the time of a request let through holds more requests of its
\* client to its endpoint than the endpoint allows
WithinLimit ==
  \A i \in DOMAIN accepted :
    LET a == accepted[i] IN
    Cardinality(AcceptedInWindow(a.client_ip, a.endpoint, a.current_time,
                                 window_seconds(a.endpoint)))
      <= max_requests(a.endpoint)
\* A refused request leaves no entry in the ledger, and no thread holds the lock while
\* its endpoint function runs
RefusedUnrecorded(r) ==
  (wrapped[r].pc = "locked" /\ wrapped'[r].pc = "refused") =>
     /\ Len(rate_limit_data'[wrapped[r].client_ip]) <= Len(Ledger(wrapped[r].client_ip))
     /\ accepted' = accepted
LockFreeInEndpoint(r) == wrapped[r].pc = "endpoint" => rate_limit_lock # r

\* C37: no client has more requests to a rate-limited endpoint let through within any
\* window of the endpoint than the endpoint's limit, in any interleaving of the request
\* threads; a refused request is not recorded in the ledger, and the lock is released
\* before the endpoint function runs.
C37_RateLimitHolds ==
  [][/\ WithinLimit'
     /\ \A r \in RequestThreads : RefusedUnrecorded(r) /\ LockFreeInEndpoint(r)']_vars

\* The refusal and the lock alone
RefusalAndLockAsClaimed ==
  [][\A r \in RequestThreads : RefusedUnrecorded(r) /\ LockFreeInEndpoint(r)']_vars

\* The limit holds as long as the clock did not advance between the reading of the time
\* and the test under the lock for any request let through
WithinLimitWhenTimedUnderLock ==
  (\A i \in DOMAIN accepted : accepted[i].at = accepted[i].current_time) => WithinLimit

\* ---- C38 ------------------------------------------------------------------------
\* Where a thread is while _ydl_download_with_ssl_fallback runs for it
HelperPcs == {"ydl_call", "ydl_run", "ydl_ssl_run"}

\* Backend download calls job j has made: the failed ones, the running one and the
\* one that succeeded
BackendCalls(j) ==
  obs[j].faults + (IF pc[M(j)] \in {"ydl_run", "ydl_ssl_run"} THEN 1 ELSE 0)
                + (IF success[j] THEN 1 ELSE 0)

\* _download_standard_mode calls the helper for the entry it stands on, and a helper
\* that returns False, whatever the backend raised, moves the loop to the next entry
OneHelperCallPerEntry(j) ==
  /\ (pc[M(j)] = "std_loop" /\ pc'[M(j)] = "ydl_call") =>
       /\ attempt'[j] = attempt[j]
       /\ retry'[M(j)] = 0
  /\ (pc[M(j)] \in HelperPcs /\ pc'[M(j)] \notin HelperPcs) =>
       \/ pc'[M(j)] = "task_finish" /\ success'[j] /\ attempt'[j] = attempt[j]
       \/ pc'[M(j)] = "std_loop" /\ ~success'[j] /\ attempt'[j] = attempt[j] + 1
  /\ (pc[M(j)] \in HelperPcs /\ pc'[M(j)] \in HelperPcs) => attempt'[j] = attempt[j]

\* Every class of backend failure that ends the helper ends it with the same False
SameFailure(j) ==
  \A e \in DownloadErrors :
    (CallFails(M(j), e) /\ pc'[M(j)] \notin HelperPcs) =>
      /\ pc'[M(j)] = "std_loop"
      /\ attempt'[j] = attempt[j] + 1
      /\ ~success'[j]

\* One helper invocation: at most max_retries calls with verification on, each
\* followed by at most one with verification off
CallsOfOneHelper(t) ==
  /\ retry[t] < max_retries
  /\ ssl_retries[t] <= retry[t] + (IF pc[t] = "ydl_call" THEN 0 ELSE 1)
  /\ pc[t] = "ydl_run" => ssl_retries[t] <= retry[t]
  /\ FetchAttempts(t) <= 2 * max_retries

\* The calls of a job: at most 6 for each entry it has left behind, plus those of the
\* entry it stands on; at most 6n for a ladder of n entries
CallsOfJob(j) ==
  /\ BackendCalls(j) <= 2 * max_retries * attempt[j] + 2 * max_retries
  /\ pc[M(j)] \in {"std_loop", "task_finish", "done"} /\ ~success[j] =>
       BackendCalls(j) <= 2 * max_retries * attempt[j]
  /\ attempt[j] <= Len(quality_options[j])
  /\ BackendCalls(j) <= 2 * max_retries * Len(quality_options[j])

\* C38: the standard path invokes the fetch helper at most once per ladder entry, every
\* class of backend failure comes back from the helper as the same False, one helper
\* invocation makes at most 6 backend download calls (at most 3 with verification on,
\* each followed by at most one with verification off), and a job with a ladder of n
\* entries makes at most 6n backend download calls.
C38_FetchCallsBounded ==
  [][\A j \in SoloJobs :
       /\ OneHelperCallPerEntry(j)
       /\ SameFailure(j)
       /\ CallsOfOneHelper(M(j))'
       /\ CallsOfJob(j)']_vars

\* The second entry of a ladder is on the sixth backend call of its helper invocation
C38_Witness ==
  /\ attempt[1] = 1
  /\ pc[M(1)] = "ydl_ssl_run"
  /\ retry[M(1)] = max_retries - 1
  /\ FetchAttempts(M(1)) = 2 * max_retries
  /\ BackendCalls(1) = 2 * max_retries + 1

\* ---- C39 ------------------------------------------------------------------------
\* Every request made so far has run to the end of its worker
AllRequestsFinished ==
  /\ req # <<>>
  /\ \A j \in DOMAIN req : pc[M(j)] = "done"

\* Requests with different insecure_ssl settings were made
DifferentSettings ==
  \E j, k \in DOMAIN req : req[j].insecure_ssl /\ ~req[k].insecure_ssl

\* C39: after all requests have finished, the insecure-SSL flag of the shared downloader
\* equals the value it had before they started, for every interleaving of concurrent
\* requests that ask for different insecure_ssl settings.
C39_InsecureFlagRestored ==
  (AllRequestsFinished /\ DifferentSettings) => ~downloader.insecure_ssl

\* The same for requests whose workers saved the flag while no other worker had
\* changed it
FlagRestoredWhenSavedClean ==
  (AllRequestsFinished /\ \A j \in DOMAIN req : ~prev_insecure[j]) => ~downloader.insecure_ssl

\* ---- C40 ------------------------------------------------------------------------
\* The record of job j is in completed_downloads with status completed
Completed(j) ==
  /\ j \in DOMAIN completed_downloads
  /\ completed_downloads[j].status = "completed"

====
